---- MODULE Spec2Model ----
(***************************************************************************)
(* NeoAPI / ZyroAPI request pipeline (lib/neoapi.js).                      *)
(*                                                                         *)
(* Eight specifications share the definitions of this module:              *)
(*   Spec     one application instance: registration (attach, route, hook, *)
(*            error handler), then one request driven through              *)
(*            _handleRequest / next / _handleError on Node's event loop    *)
(*            (synchronous segments, microtask continuations of awaits,    *)
(*            setImmediate callbacks, I/O completions, finish and close).  *)
(*   SpecLive Spec with pending hook handlers that settle in the end.      *)
(*   SpecRes  one decorated response object on which any sequence of the   *)
(*            response helpers, the file-stream callbacks of sendFile, the *)
(*            synchronous tail of _handleError and the finish/close        *)
(*            listeners is applied.                                        *)
(*   SpecErr  the synchronous tail of _handleError on a response whose     *)
(*            status steps have set, in a process started with any         *)
(*            NODE_ENV.                                                    *)
(*   SpecPar  the handler parallel(handlerList) returns: producers that    *)
(*            settle in any order, Promise.all, the merge and res.json.    *)
(*   SpecReg  registration calls with any argument: plug(PluginClass) with *)
(*            good and bad definitions, addHook, attach, error, get, and   *)
(*            the call of the terminal error handler.                      *)
(*   SpecGroup  group(prefix, callback), nested, with callbacks that       *)
(*            return or throw, and the path a route is registered under.   *)
(*   SpecUrl  req.pathname and req.query of a request from its URL.        *)
(***************************************************************************)
EXTENDS Integers, Sequences, FiniteSets, TLC

\* ------------------------------------------------------------------ bounds
MaxSetup == 2        \* user functions registered before the request arrives
MaxFiles == 2        \* sendFile calls on one response (SpecRes)
MaxProducers == 2    \* handlers in the list given to parallel() (SpecPar)
MaxPairs == 3        \* key=value pairs in the query string of a URL (SpecUrl)
MaxLen == 3          \* characters of a group prefix or of a route path (SpecGroup)
MaxGroups == 2       \* calls of group() inside one another (SpecGroup)

\* ------------------------------------------------------------- JS values
\* Values handed to res.send / res.json.  "circ" is an object JSON.stringify
\* rejects, "undef" is undefined.
DataVals == {"str", "obj", "circ", "undef"}
Undefined == "<undefined>"
\* the object literal the default error handler sends, with its stack
\* property defined or undefined
ErrorBodies == {"error", "errorStack"}

\* JSON.stringify(data): undefined for undefined, a string otherwise; a
\* property whose value is undefined is left out
\* (callers test for "circ" first: it throws).
Stringify(data) == IF data = "undef" THEN Undefined
                   ELSE IF data = "str" THEN "json:\"str\""
                   ELSE IF data = "error" THEN "json:{error:{message,code}}"
                   ELSE IF data = "errorStack" THEN "json:{error:{message,code,stack}}"
                   ELSE "json:{obj}"

CtJson == "application/json; charset=utf-8"
CtText == "text/plain; charset=utf-8"
CtFile == "file-mime"

\* Failures raised by user code: Error objects with or without a statusCode,
\* a truthy value that is not an Error, and a falsy one (null, undefined, 0, '').
\* statusCode 0 stands for "no statusCode property".
ErrPlain == [isError |-> TRUE,  truthy |-> TRUE,  statusCode |-> 0,   code |-> "E"]
Err404   == [isError |-> TRUE,  truthy |-> TRUE,  statusCode |-> 404, code |-> "E404"]
Err302   == [isError |-> TRUE,  truthy |-> TRUE,  statusCode |-> 302, code |-> "E302"]
ValStr   == [isError |-> FALSE, truthy |-> TRUE,  statusCode |-> 0,   code |-> "str"]
ValNil   == [isError |-> FALSE, truthy |-> FALSE, statusCode |-> 0,   code |-> "nil"]
ErrVals  == {ErrPlain, Err404, Err302, ValStr, ValNil}
\* the Error a hook handler of the modelled request throws or rejects with
ErrHook  == [isError |-> TRUE,  truthy |-> TRUE,  statusCode |-> 0,   code |-> "EHOOK"]
\* the failures the steps of the modelled request raise
Raised   == {ErrPlain, ValNil}
NoErr    == [isError |-> FALSE, truthy |-> FALSE, statusCode |-> 0,   code |-> "none"]

\* the chain-fallback error without `err404.statusCode = 404`
ChainFallbackNoStatus == [isError |-> TRUE, truthy |-> TRUE, statusCode |-> 0, code |-> "CHAIN_FALLBACK"]

\* the error next() builds when the chain is exhausted
ChainFallback == [isError |-> TRUE, truthy |-> TRUE, statusCode |-> 404, code |-> "CHAIN_FALLBACK"]

\* _handleError, first statement: anything that is not an Error is wrapped
\* in a new Error with statusCode 500.
Normalize(err) ==
    IF err.isError THEN err
    ELSE [isError |-> TRUE, truthy |-> TRUE, statusCode |-> 500, code |-> "wrapped:" \o err.code]

\* ---------------------------------------------------------------- response
\* The decorated ServerResponse.  sent is the wire: one entry per header
\* block actually flushed, with the body written behind it.
NewRes == [finished |-> FALSE, headersSent |-> FALSE, writableEnded |-> FALSE,
           statusCode |-> 200, ctype |-> "", location |-> "",
           destroyed |-> FALSE, sent |-> <<>>]

guardResponse(r) ==
    IF r.finished \/ r.headersSent
    THEN [res |-> [r EXCEPT !.finished = TRUE], blocked |-> TRUE]
    ELSE [res |-> r, blocked |-> FALSE]

\* http.ServerResponse: writeHead(code) flushes the header block
writeHead(r, code, body) ==
    [r EXCEPT !.statusCode = code, !.headersSent = TRUE,
              !.sent = Append(@, [status |-> code, ctype |-> r.ctype,
                                  location |-> r.location, body |-> body])]

\* http.ServerResponse: end(body); flushes implicit headers when none were sent
end(r, body) ==
    LET r1 == IF r.headersSent THEN r ELSE writeHead(r, r.statusCode, body)
    IN  [r1 EXCEPT !.writableEnded = TRUE]

finishResponse(r, body, contentType) ==
    LET g == guardResponse(r) IN
    IF g.blocked THEN [res |-> g.res, threw |-> FALSE]
    ELSE LET r1 == [r EXCEPT !.finished = TRUE,
                             !.ctype = IF @ = "" THEN contentType ELSE @]
         IN  IF body = Undefined
             THEN [res |-> r1, threw |-> TRUE]      \* Buffer.byteLength(undefined)
             ELSE [res |-> end(writeHead(r1, IF r1.statusCode = 0 THEN 200 ELSE r1.statusCode, body), body),
                   threw |-> FALSE]

status(r, code) == [r EXCEPT !.statusCode = code]

type(r, ct) == [r EXCEPT !.ctype = ct]

send(r, data) ==
    IF data = "circ" THEN [res |-> r, threw |-> TRUE]   \* JSON.stringify throws
    ELSE IF data \in {"obj"} \cup ErrorBodies THEN finishResponse(r, Stringify(data), CtJson)
    ELSE finishResponse(r, IF data = "undef" THEN "" ELSE "text:str", CtText)

json(r, data) ==
    LET g == guardResponse(r) IN
    IF g.blocked THEN [res |-> g.res, threw |-> FALSE]
    ELSE IF data = "circ" THEN [res |-> r, threw |-> TRUE]
    ELSE finishResponse(r, Stringify(data), CtJson)

sendStatus(r, code) ==
    LET g == guardResponse(r) IN
    IF g.blocked THEN [res |-> g.res, threw |-> FALSE]
    ELSE [res |-> end(status([r EXCEPT !.finished = TRUE], code), ""), threw |-> FALSE]

redirect(r, url, code) ==
    LET g == guardResponse(r) IN
    IF g.blocked THEN [res |-> g.res, threw |-> FALSE]
    ELSE [res |-> end([status([r EXCEPT !.finished = TRUE], code) EXCEPT !.location = url], ""),
          threw |-> FALSE]

\* sendFile(path), synchronous part: only the guard; the file is opened later
sendFileCall(r) == guardResponse(r)

\* sendFile: the status chosen by the catch of fs.access
FileErrStatus(code) == IF code = "ENOENT" THEN 404 ELSE IF code = "EACCES" THEN 403 ELSE 500

\* sendFile: the status chosen by the stream's 'error' listener
StreamErrStatus(code) == IF code = "EACCES" THEN 403 ELSE 500

\* sendFile: the body of the catch of fs.access and of the 'error' listener

sendFileError(r, st) ==
    IF ~r.headersSent /\ ~r.finished
    THEN send(type(status([r EXCEPT !.finished = TRUE], st), CtText), "str").res
    ELSE IF ~r.finished
         THEN [r EXCEPT !.destroyed = TRUE, !.finished = TRUE]
         ELSE r

\* sendFile: the stream's 'open' listener; TRUE in piped when the file is piped
sendFileOpen(r) ==
    IF r.finished \/ r.headersSent
    THEN [res |-> r, piped |-> FALSE]
    ELSE [res |-> writeHead([r EXCEPT !.ctype = CtFile],
                            IF r.statusCode = 0 THEN 200 ELSE r.statusCode, "file"),
          piped |-> TRUE]

\* ----------------------------------------------------------- error pipeline
\* process.env.NODE_ENV: not set, or set to one of the usual names
VARIABLE nodeEnv
NodeEnvs == {"", "production", "development"}

\* What a terminal error handler registered with app.error() does when called.
CustomBehaviours == {"json", "none", "throw", "jsonThrow", "reject"}

\* `this.errorHandler(err, req, res)` is called without await: the promise an
\* async handler returns is dropped, and its rejection is handled by nobody
Unhandled(handler, beh) == handler = "custom" /\ beh = "reject"

\* the default handler's `stack: process.env.NODE_ENV !== 'production' ? err.stack : undefined`
ErrorBody == IF nodeEnv # "production" THEN "errorStack" ELSE "error"

_defaultErrorHandler(r, err) ==
    IF ~r.writableEnded /\ ~r.headersSent /\ ~r.finished
    THEN LET statusCode == IF err.statusCode >= 400 THEN err.statusCode ELSE 500
         IN  send(type(status(r, statusCode), CtJson), ErrorBody).res
    ELSE IF ~r.finished
         THEN [r EXCEPT !.destroyed = TRUE, !.finished = TRUE]
         ELSE r

\* the registered handler: the default one, or user code behaving as beh
errorHandlerCall(r, err, handler, beh) ==
    IF handler = "default" THEN [res |-> _defaultErrorHandler(r, err), threw |-> FALSE]
    ELSE IF beh = "json" THEN [res |-> json(r, "obj").res, threw |-> FALSE]
    ELSE IF beh = "jsonThrow" THEN [res |-> json(r, "obj").res, threw |-> TRUE]
    ELSE IF beh = "throw" THEN [res |-> r, threw |-> TRUE]
    ELSE [res |-> r, threw |-> FALSE]

\* the status assignment of _handleError, for any status not yet set
errorStatusAlways(r, err) ==
    IF ~r.headersSent /\ ~r.finished
    THEN [r EXCEPT !.statusCode = IF err.statusCode >= 400 THEN err.statusCode ELSE 500]
    ELSE r

\* _handleError: the status is taken from the error unless the response
\* carries a status of 400 or more, has started or is finished
errorStatus(r, err) ==
    IF r.statusCode < 400 /\ ~r.headersSent /\ ~r.finished
    THEN [r EXCEPT !.statusCode = IF err.statusCode >= 400 THEN err.statusCode ELSE 500]
    ELSE r

\* _handleError: the catch around the call of the terminal error handler
errorFallback(r) ==
    IF ~r.writableEnded /\ ~r.headersSent /\ ~r.finished
    THEN [end(writeHead([r EXCEPT !.ctype = "application/json"], 500, "json:fallback"),
              "json:fallback") EXCEPT !.finished = TRUE]
    ELSE IF ~r.finished /\ ~r.destroyed
         THEN [r EXCEPT !.destroyed = TRUE, !.finished = TRUE]
         ELSE r

\* _handleError after the onError hooks: status, terminal handler, fallback
handleErrorTail(r, err, handler, beh) ==
    LET h == errorHandlerCall(errorStatus(r, err), err, handler, beh)
    IN  IF ~h.threw THEN h.res ELSE errorFallback(h.res)

\* the 'finish' listeners (_handleRequest and sendFile's cleanup)
onFinish(r) == [r EXCEPT !.finished = TRUE]

\* _handleRequest's 'close' listener (cleanup)
onCloseNoMark(r) == r

onClose(r) == IF ~r.writableEnded THEN [r EXCEPT !.finished = TRUE] ELSE r


\* ------------------------------------------------------------------- state
VARIABLES
    \* the application instance (constructor, attach, _addRoute, addHook, error)
    middleware,      \* this.middleware: sequence of [fn |-> id]
    router,          \* this.router: set of registered routes
    hooks,           \* this.hooks: hook name -> sequence of handler ids
    errorHandler,    \* this.errorHandler: "default" or the function given to error()
    phase,           \* "setup" until the request arrives, then "serving"
    reqPath,         \* req.pathname of the request
    \* the request in flight
    res,             \* the decorated response
    ctx,             \* the closure variables of _handleRequest
    acts,            \* activations of async functions and the user code they run
    immq,            \* setImmediate queue: the arguments of the queued next() calls
    call,            \* next(err) called from the catch block, about to run
    ev,              \* listeners and events of the response
    \* history
    trace,           \* chain steps in the order their execution began
    hlog,            \* hook handlers in the order they were called
    glog,            \* failures raised, errors entering / leaving the error pipeline
    \* SpecRes only
    files,           \* the streams of the sendFile calls
    last,            \* the last helper applied to the response and how it ended
    \* SpecPar only
    promises,        \* parallel: the promises of the producers, in list order
    fan,             \* parallel: the activation of the handler it returned
    \* SpecReg only
    plugins,         \* this.plugins: the names of the plugins loaded
    \* SpecGroup only
    _currentGroupPrefix, \* this._currentGroupPrefix, a string as its characters
    groups,          \* the calls of group() in progress, outermost first
    \* SpecUrl only
    req              \* req.url, req.pathname and req.query of the request

vars == <<middleware, router, hooks, errorHandler, phase, reqPath, res, ctx, acts,
          immq, call, ev, trace, hlog, glog, files, last, nodeEnv, promises, fan, plugins,
          _currentGroupPrefix, groups, req>>

appVars == <<middleware, router, hooks, errorHandler>>
\* what the request pipeline and the response helpers only read, or ignore
envVars == <<nodeEnv, promises, fan, plugins, _currentGroupPrefix, groups, req>>

RequestHooks == {"onRequest", "preHandler", "onError", "onResponse"}
RoutePath == "/a"
Paths == {RoutePath, "/zz"}

NewCtx == [started |-> FALSE, matched |-> FALSE, totalRouteMiddleware |-> 0,
           globalMiddlewareIndex |-> 0, routeMiddlewareIndex |-> 0,
           handlerExecuted |-> FALSE]
NewEv  == [finishListener |-> FALSE, closeListener |-> FALSE,
           finishFired |-> FALSE, closed |-> FALSE]
NoCall == [pending |-> FALSE, err |-> NoErr]
NewLog == [raised |-> {},        \* failures raised by steps while the response was unfinished
           entered |-> {},       \* errors _handleError was called with
           nEntered |-> 0,       \* calls of _handleError
           handled |-> {},       \* errors the terminal error handler was called with
           nHandled |-> 0,       \* calls of the terminal error handler
           dup |-> FALSE,        \* the last segment called a continuation a second time
           notes |-> {},         \* what else the last segment did (see Cur)
           sched |-> 0,          \* most next() calls queued by one continuation
           conts |-> 0,          \* middleware whose continuation took effect without an error
           mwFinished |-> FALSE, \* a middleware finished the response
           hookFailed |-> FALSE, \* an onRequest or preHandler hook handler threw or rejected
           hookFinished |-> FALSE] \* a hook handler finished the response
NoLast == [op |-> "none", threw |-> FALSE,
           beh |-> "",    \* handleError: what the terminal handler did
                          \* plug: the name of the class; addHook: the hook name
           arg |-> 0,     \* handleError: the statusCode of the error a handler
                          \* that leaves the status alone was called with
                          \* plug: the calls of load(app) it made
           kind |-> ""]   \* plug: the kind of definition; addHook: of handler
                          \* SpecGroup: beh is the prefix given to group() or
                          \* the path given to get(), kind the path registered
\* parallel: the handler not yet created
NoFan == [phase |-> "none",      \* none, created, running (awaiting Promise.all), done
          handlerList |-> 0,     \* number of producers in the list
          order |-> <<>>,        \* the producers in the order they settled
          aggregatedData |-> [a |-> 0, b |-> 0, circ |-> FALSE],
          passed |-> "none",     \* what the catch passed to next(err), if anything
          handled |-> FALSE]     \* the error pipeline has answered it

\* the request before its URL is parsed
NewReq == [url |-> <<>>, pathname |-> <<>>, query |-> <<>>]

\* the state after `new NeoAPI()`
Init ==
    /\ middleware = <<>>
    /\ router = {}
    /\ hooks = [n \in RequestHooks |-> <<>>]
    /\ errorHandler = "default"
    /\ phase = "setup"
    /\ reqPath = ""
    /\ res = NewRes
    /\ ctx = NewCtx
    /\ acts = <<>>
    /\ immq = <<>>
    /\ call = NoCall
    /\ ev = NewEv
    /\ trace = <<>>
    /\ hlog = [n \in RequestHooks |-> <<>>]
    /\ glog = NewLog
    /\ files = <<>>
    /\ last = NoLast
    /\ nodeEnv = ""
    /\ promises = <<>>
    /\ fan = NoFan
    /\ plugins = {}
    /\ _currentGroupPrefix = <<>>
    /\ groups = <<>>
    /\ req = NewReq

reqVars == <<res, ctx, acts, immq, call, ev, trace, hlog, glog>>

\* ------------------------------------------------------------ registration
RouteMws == IF router = {} THEN 0 ELSE Len((CHOOSE r \in router : TRUE).store.middlewares)
HookTotal == Len(hooks["onRequest"]) + Len(hooks["preHandler"])
             + Len(hooks["onError"]) + Len(hooks["onResponse"])
Registered == Len(middleware) + RouteMws + HookTotal
              + (IF errorHandler = "custom" THEN 1 ELSE 0)

\* attach(fn)
attach ==
    /\ phase = "setup"
    /\ Registered < MaxSetup
    /\ middleware' = Append(middleware, [fn |-> Len(middleware) + 1])
    /\ UNCHANGED <<router, hooks, errorHandler, phase, reqPath, reqVars, files, last, envVars>>

\* get(path, ...middlewares, handler)
_addRoute ==
    /\ phase = "setup"
    /\ router = {}
    /\ \E n \in 0..(MaxSetup - Registered) :
         router' = {[method |-> "GET", path |-> RoutePath, handler |-> "handler",
                     store |-> [middlewares |-> [i \in 1..n |-> i]]]}
    /\ UNCHANGED <<middleware, hooks, errorHandler, phase, reqPath, reqVars, files, last, envVars>>

\* addHook(hookName, handlerFn)
addHook ==
    /\ phase = "setup"
    /\ Registered < MaxSetup
    /\ \E n \in RequestHooks :
         hooks' = [hooks EXCEPT ![n] = Append(@, Len(@) + 1)]
    /\ UNCHANGED <<middleware, router, errorHandler, phase, reqPath, reqVars, files, last, envVars>>

\* error(handlerFn)
error ==
    /\ phase = "setup"
    /\ Registered < MaxSetup
    /\ errorHandler = "default"
    /\ errorHandler' = "custom"
    /\ UNCHANGED <<middleware, router, hooks, phase, reqPath, reqVars, files, last, envVars>>

_hasHook(hookName) == Len(hooks[hookName]) > 0

\* router.find(method, pathname)
find(path) == {r \in router : r.path = path}

\* -------------------------------------------------- the request as a value
\* The operators below map one state of the request to the set of states the
\* code can leave it in: they are composed inside the actions, which each
\* run one synchronous segment of JavaScript to its end.
Cur == [res |-> res, ctx |-> ctx, acts |-> acts, immq |-> immq, call |-> call,
        ev |-> ev, trace |-> trace, hlog |-> hlog,
        glog |-> [glog EXCEPT !.dup = FALSE, !.notes = {}]]

\* activations that still have code to run; the others are garbage
Live(act) == act.pc # "done" \/ act.body = "pending"

Install(s) ==
    /\ res' = s.res
    /\ ctx' = s.ctx
    /\ acts' = SelectSeq(s.acts, Live)
    /\ immq' = s.immq
    /\ call' = s.call
    /\ ev' = s.ev
    /\ trace' = s.trace
    /\ hlog' = s.hlog
    /\ glog' = s.glog

NewAct(kind) ==
    [kind |-> kind, pc |-> "done", hookIdx |-> 0, err |-> NoErr, fail |-> NoErr,
     step |-> <<>>, nextCalled |-> FALSE, thenable |-> FALSE, body |-> "none",
     sched |-> 0,
     inv |-> 0,        \* which call of _handleError this activation is
     hrun |-> FALSE,   \* the hook handler it called last has not settled
     late |-> FALSE]   \* the response was finished when _handleError was called

HookOf(kind) == CASE kind = "req"  -> "onRequest"
                  [] kind = "next" -> "preHandler"
                  [] kind = "err"  -> "onError"
                  [] kind = "fin"  -> "onResponse"

\* ------------------------------------------------------------- user code
\* The terminal calls user code makes on the response: none, res.send('str'),
\* or res.json(undefined), which throws a TypeError out of finishResponse.
UserSends == {"none", "str", "undef"}
UserSend(r, sd) ==
    IF sd = "str" THEN send(r, "str")
    ELSE IF sd = "undef" THEN json(r, "undef")
    ELSE [res |-> r, threw |-> FALSE]

\* What a hook handler does in one synchronous segment: it may send a
\* response, and it returns, throws (or rejects), or stays pending.
HookBeh(name) ==
    LET Sends  == IF name \in {"onRequest", "preHandler"} THEN UserSends ELSE {"none"}
        Thrown == {ErrHook}
    IN  {[send |-> sd, end |-> e, v |-> NoErr] : sd \in Sends, e \in {"return", "suspend"}}
        \cup {[send |-> sd, end |-> "throw", v |-> x] : sd \in Sends, x \in Thrown}

\* What a middleware or handler does in one synchronous segment: it may set
\* a status, send a response, call its continuation (once or twice, with or
\* without an argument), and it returns, throws, or stays pending.
StatusVals == {0}
StepBeh ==
    LET Nexts == {[next |-> "none", nextv |-> NoErr, dup |-> FALSE]}
                 \cup {[next |-> "call", nextv |-> NoErr, dup |-> d] : d \in BOOLEAN}
                 \cup {[next |-> "call", nextv |-> x, dup |-> FALSE] : x \in Raised \ {ValNil}}
        Ends  == {[end |-> e, v |-> NoErr] : e \in {"return", "suspend"}}
                 \cup {[end |-> "throw", v |-> x] : x \in Raised}
    IN  {[n |-> n, e |-> e, send |-> sd, st |-> st] :
             n \in Nexts, e \in Ends, sd \in UserSends, st \in StatusVals}

\* an exception thrown by a response helper ends the segment
Effective(r, b) ==
    IF UserSend(r, b.send).threw THEN [b EXCEPT !.e = [end |-> "throw", v |-> ErrPlain]]
    ELSE b


\* `handler(...args)` without the await: the loop goes on while the handler
\* is still pending
HookPcNoAwait(outcome) == IF outcome = "throw" THEN "hookErr" ELSE "hookOk"

\* the catch block of _runHooks without its `throw hookError`
HookPcSwallow(outcome) == IF outcome = "suspend" THEN "hookPending" ELSE "hookOk"

\* Where `await handler(...args)` in the loop of _runHooks leaves the run:
\* going on to the next handler, rethrowing out of the loop, or suspended.
HookPc(outcome) == CASE outcome = "return"  -> "hookOk"
                     [] outcome = "throw"   -> "hookErr"
                     [] outcome = "suspend" -> "hookPending"

\* one call of the hook handler number acts[a].hookIdx (inside _runHooks)
HookSegment(s, a, b0, called) ==
    LET act == s.acts[a]
        u   == UserSend(s.res, b0.send)
        b   == IF u.threw THEN [b0 EXCEPT !.end = "throw", !.v = ErrHook] ELSE b0
        r1  == u.res
    IN  [s EXCEPT !.res = r1, !.acts[a].pc = HookPc(b.end), !.acts[a].fail = b.v,
                  !.acts[a].hrun = (b.end = "suspend"),
                  !.hlog[HookOf(act.kind)] = IF called THEN Append(@, act.hookIdx) ELSE @,
                  !.glog.hookFailed = @ \/ (b.end = "throw" /\ act.kind \in {"req", "next"}),
                  !.glog.hookFinished = @ \/ (r1.finished /\ ~s.res.finished)]

CallHook(s, a) == {HookSegment(s, a, b, TRUE) : b \in HookBeh(HookOf(s.acts[a].kind))}

\* nextWrapper without `if (nextCalled) return`
nextWrapperNoGuard(w, errWrapper) ==
    [nextCalled |-> TRUE, q |-> Append(w.q, errWrapper), n |-> w.n + 1]

\* nextWrapper(errWrapper): w carries nextCalled, the setImmediate queue and
\* the number of next() calls this wrapper has queued
nextWrapper(w, errWrapper) ==
    IF w.nextCalled THEN w
    ELSE [nextCalled |-> TRUE, q |-> Append(w.q, errWrapper), n |-> w.n + 1]

\* one synchronous segment of a middleware or handler body
StepEffects(s, a, b) ==
    LET act == s.acts[a]
        r0  == IF b.st # 0 THEN status(s.res, b.st) ELSE s.res
        r1  == UserSend(r0, b.send).res
        w0  == [nextCalled |-> act.nextCalled, q |-> s.immq, n |-> act.sched]
        w1  == IF b.n.next = "call" THEN nextWrapper(w0, b.n.nextv) ELSE w0
        w2  == IF b.n.dup THEN nextWrapper(w1, NoErr) ELSE w1
        viaNext  == b.n.next = "call" /\ w1.n > w0.n /\ b.n.nextv.truthy
        viaThrow == b.e.end = "throw"
        isMw     == act.step[1] # "handler"
        finishes == r1.finished /\ ~s.res.finished
        raisedNow == IF r1.finished THEN {}
                     ELSE (IF viaNext THEN {b.n.nextv} ELSE {})
                          \cup (IF viaThrow THEN {b.e.v} ELSE {})
    IN  [s EXCEPT !.res = r1,
                  !.immq = w2.q,
                  !.acts[a].nextCalled = w2.nextCalled,
                  !.acts[a].sched = w2.n,
                  !.glog.raised = @ \cup raisedNow,
                  !.glog.dup = b.n.dup \/ (b.n.next = "call" /\ act.nextCalled),
                  !.glog.sched = IF w2.n > @ THEN w2.n ELSE @,
                  !.glog.conts = IF isMw /\ w1.n > w0.n /\ ~b.n.nextv.truthy THEN @ + 1 ELSE @,
                  !.glog.mwFinished = @ \/ (isMw /\ finishes)]

\* how the segment ends: a returned promise stays pending, resolves or
\* rejects; a plain function returns (perhaps leaving callbacks behind) or
\* throws into the catch block of next
StepEnd(s, a, b0, thenable) ==
    LET b  == Effective(s.res, b0)
        s1 == [StepEffects(s, a, b) EXCEPT !.acts[a].thenable = thenable]
    IN  CASE b.e.end = "return" ->
               [s1 EXCEPT !.acts[a].pc = "done", !.acts[a].body = "settled",
                          !.acts[a].thenable = FALSE]
          [] b.e.end = "suspend" ->
               [s1 EXCEPT !.acts[a].pc = IF thenable THEN "await" ELSE "done",
                          !.acts[a].body = "pending"]
          [] b.e.end = "throw" /\ thenable ->
               [s1 EXCEPT !.acts[a].pc = "awaitErr", !.acts[a].fail = b.e.v,
                          !.acts[a].body = "settled"]
          [] b.e.end = "throw" /\ ~thenable ->
               [s1 EXCEPT !.acts[a].pc = "done", !.acts[a].body = "settled",
                          !.call = [pending |-> TRUE, err |-> b.e.v]]

\* next(), from `let nextCalled = false` to the await of the result
RunStep(s, a) ==
    LET s0 == [s EXCEPT !.trace = Append(@, s.acts[a].step),
                        !.acts[a].nextCalled = FALSE]
    IN  UNION {{StepEnd(s0, a, b, th) : th \in IF b.e.end = "throw" THEN BOOLEAN ELSE {TRUE}}
                  : b \in StepBeh}

\* _handleError returning at once
EnterErrorDropped(s, err) == {s}

\* _handleError up to the await of the onError hooks
EnterError(s, err) ==
    LET e  == Normalize(err)
        a  == Len(s.acts) + 1
        s1 == [s EXCEPT !.acts = Append(@, [NewAct("err") EXCEPT !.err = e, !.pc = "hookOk",
                                                                 !.inv = s.glog.nEntered + 1,
                                                                 !.late = s.res.finished]),
                        !.glog.entered = @ \cup {e}, !.glog.nEntered = @ + 1]
    IN  IF _hasHook("onError")
        THEN CallHook([s1 EXCEPT !.acts[a].hookIdx = 1], a)
        ELSE {s1}

\* the preHandler hooks run before every step, not only before the handler
RunsPreHandlerAnyStep(step) == _hasHook("preHandler")

\* `if (isHandler && this._hasHook('preHandler'))`
RunsPreHandler(step) == step[1] = "handler" /\ _hasHook("preHandler")

\* the step selection with the route middleware tested before the global ones
SelectStepRouteFirst(c) ==
    IF c.matched /\ c.routeMiddlewareIndex < c.totalRouteMiddleware
    THEN [step |-> <<"route", c.routeMiddlewareIndex + 1>>,
          ctx |-> [c EXCEPT !.routeMiddlewareIndex = @ + 1]]
    ELSE IF c.globalMiddlewareIndex < Len(middleware)
    THEN [step |-> <<"global", c.globalMiddlewareIndex + 1>>,
          ctx |-> [c EXCEPT !.globalMiddlewareIndex = @ + 1]]
    ELSE IF c.matched /\ ~c.handlerExecuted
    THEN [step |-> <<"handler", 0>>, ctx |-> [c EXCEPT !.handlerExecuted = TRUE]]
    ELSE [step |-> <<>>, ctx |-> c]

\* the step selection without the handlerExecuted flag
SelectStepHandlerAgain(c) ==
    IF c.globalMiddlewareIndex < Len(middleware)
    THEN [step |-> <<"global", c.globalMiddlewareIndex + 1>>,
          ctx |-> [c EXCEPT !.globalMiddlewareIndex = @ + 1]]
    ELSE IF c.matched /\ c.routeMiddlewareIndex < c.totalRouteMiddleware
    THEN [step |-> <<"route", c.routeMiddlewareIndex + 1>>,
          ctx |-> [c EXCEPT !.routeMiddlewareIndex = @ + 1]]
    ELSE IF c.matched
    THEN [step |-> <<"handler", 0>>, ctx |-> [c EXCEPT !.handlerExecuted = TRUE]]
    ELSE [step |-> <<>>, ctx |-> c]

\* next: "Determine next function to execute"; step <<>> is middlewareToExecute = null
SelectStep(c) ==
    IF c.globalMiddlewareIndex < Len(middleware)
    THEN [step |-> <<"global", c.globalMiddlewareIndex + 1>>,
          ctx |-> [c EXCEPT !.globalMiddlewareIndex = @ + 1]]
    ELSE IF c.matched /\ c.routeMiddlewareIndex < c.totalRouteMiddleware
    THEN [step |-> <<"route", c.routeMiddlewareIndex + 1>>,
          ctx |-> [c EXCEPT !.routeMiddlewareIndex = @ + 1]]
    ELSE IF c.matched /\ ~c.handlerExecuted
    THEN [step |-> <<"handler", 0>>, ctx |-> [c EXCEPT !.handlerExecuted = TRUE]]
    ELSE [step |-> <<>>, ctx |-> c]

\* next(err), from its first statement to its first await
next(s, err) ==
    IF s.res.finished \/ s.res.writableEnded THEN {s}
    ELSE IF err.truthy THEN EnterError(s, err)
    ELSE LET sel == SelectStep(s.ctx)
             a   == Len(s.acts) + 1
             s1  == [s EXCEPT !.ctx = sel.ctx,
                              !.acts = Append(@, [NewAct("next") EXCEPT !.step = sel.step])]
         IN  IF sel.step = <<>> THEN EnterError(s, ChainFallback)
             ELSE IF RunsPreHandler(sel.step)
             THEN CallHook([s1 EXCEPT !.acts[a].hookIdx = 1], a)
             ELSE RunStep(s1, a)

\* _handleError after the await: status, terminal error handler, fallback
ErrorTail(s, a) ==
    LET act == s.acts[a]
        Done(beh) ==
            LET r == handleErrorTail(s.res, act.err, errorHandler, beh)
            IN  [s EXCEPT !.res = r, !.acts[a].pc = "done",
                          !.glog.handled = @ \cup {act.err}, !.glog.nHandled = @ + 1,
                          !.glog.notes = @ \cup {n \in {"late"} : act.late}
                                           \cup {n \in {"onErrorHookFailed"} : act.pc = "hookErr"}
                                           \cup {n \in {"unhandledRejection"} :
                                                     Unhandled(errorHandler, beh)}]
    IN  IF errorHandler = "default" THEN {Done("default")}
        ELSE {Done(beh) : beh \in CustomBehaviours}

\* the catch around `await this._runHooks('onError', ...)` rethrowing the
\* hook's failure into the pipeline
OnErrorHookRethrown(s, a) == EnterError([s EXCEPT !.acts[a].pc = "done"], s.acts[a].fail)

\* the catch around `await this._runHooks('onError', ...)`: the failure is
\* logged and _handleError goes on to the terminal handler
OnErrorHookFailed(s, a) == ErrorTail(s, a)

\* _handleRequest after the onRequest hooks: listeners, route matching, next()
StartChain(s, path) ==
    LET route == find(path)
        rms   == IF route = {} THEN 0
                 ELSE Len((CHOOSE r \in route : TRUE).store.middlewares)
        s1 == [s EXCEPT !.ev.finishListener = TRUE, !.ev.closeListener = TRUE,
                        !.ctx = [NewCtx EXCEPT !.started = TRUE,
                                               !.matched = route # {},
                                               !.totalRouteMiddleware = rms]]
    IN  next(s1, NoErr)

\* the code behind an await of _runHooks, once the awaited handler settled
ResumeHooksOf(s, a) ==
    LET act  == s.acts[a]
        done == [s EXCEPT !.acts[a].pc = "done"]
    IN  IF act.pc = "hookOk" /\ act.hookIdx < Len(hooks[HookOf(act.kind)])
        THEN CallHook([s EXCEPT !.acts[a].hookIdx = @ + 1], a)
        ELSE IF act.pc = "hookOk"
        THEN CASE act.kind = "req"  -> StartChain(done, reqPath)
               [] act.kind = "next" -> RunStep(s, a)
               [] act.kind = "err"  -> ErrorTail(s, a)
               [] act.kind = "fin"  -> {done}
        ELSE CASE act.kind = "req"  -> EnterError(done, act.fail)
               [] act.kind = "next" -> next(done, act.fail)
               [] act.kind = "err"  -> OnErrorHookFailed(s, a)
               [] act.kind = "fin"  -> {done}

\* ------------------------------------------------------------- event loop
MicroReady == \E a \in 1..Len(acts) : acts[a].pc \in {"hookOk", "hookErr", "awaitErr"}
Idle == phase = "serving" /\ ~call.pending
\* a new macrotask starts only when the microtask queue has drained
Macro == Idle /\ ~MicroReady

Frame == UNCHANGED <<appVars, phase, reqPath, files, last, envVars>>

\* _handleRequest(req, res): the server hands over a request
_handleRequest ==
    /\ phase = "setup"
    /\ phase' = "serving"
    /\ \E p \in Paths :
         /\ reqPath' = p
         /\ LET a  == Len(acts) + 1
                s1 == [Cur EXCEPT !.acts = Append(@, [NewAct("req") EXCEPT !.hookIdx = 1])]
            IN  IF _hasHook("onRequest")
                THEN \E s2 \in CallHook(s1, a) : Install(s2)
                ELSE \E s2 \in StartChain(Cur, p) : Install(s2)
    /\ UNCHANGED <<appVars, files, last, envVars>>

\* the callback of setImmediate(() => next(errWrapper))
RunImmediate ==
    /\ Macro
    /\ immq # <<>>
    /\ \E s2 \in next([Cur EXCEPT !.immq = Tail(@)], Head(immq)) : Install(s2)
    /\ Frame

\* catch (err) { return next(err) } after the step threw synchronously
CatchNext ==
    /\ phase = "serving"
    /\ call.pending
    /\ \E s2 \in next([Cur EXCEPT !.call = NoCall], call.err) : Install(s2)
    /\ Frame

\* catch (err) { return next(err) } after `await result` rejected
ResumeAwait ==
    /\ Idle
    /\ \E a \in 1..Len(acts) :
         /\ acts[a].pc = "awaitErr"
         /\ \E s2 \in next([Cur EXCEPT !.acts[a].pc = "done"], acts[a].fail) : Install(s2)
    /\ Frame

\* the continuation of an await of _runHooks
ResumeHooks ==
    /\ Idle
    /\ \E a \in 1..Len(acts) :
         /\ acts[a].pc \in {"hookOk", "hookErr"}
         /\ \E s2 \in ResumeHooksOf(Cur, a) : Install(s2)
    /\ Frame

\* a pending middleware or handler goes on: a callback or the code after an await
StepResume ==
    /\ Macro
    /\ \E a \in 1..Len(acts) :
         /\ acts[a].body = "pending"
         /\ \E b \in StepBeh :
              /\ b.e.end = "throw" => acts[a].thenable
              /\ Install(StepEnd(Cur, a, b, acts[a].thenable))
    /\ Frame

\* a pending hook handler settles
HookSettle ==
    /\ Macro
    /\ \E a \in 1..Len(acts) :
         /\ acts[a].pc = "hookPending"
         /\ \E b \in HookBeh(HookOf(acts[a].kind)) :
              /\ b.end # "suspend"
              /\ Install(HookSegment(Cur, a, b, FALSE))
    /\ Frame

\* the response's 'finish' event
Finish ==
    /\ Macro
    /\ res.writableEnded /\ ~ev.finishFired /\ ~ev.closed
    /\ _hasHook("onResponse")      \* without hooks the listener changes nothing
    /\ LET s0 == [Cur EXCEPT !.ev.finishFired = TRUE]
           a  == Len(acts) + 1
           s1 == [s0 EXCEPT !.acts = Append(@, [NewAct("fin") EXCEPT !.hookIdx = 1])]
           Fin(s) == [s EXCEPT !.res = onFinish(@), !.ev.closeListener = FALSE]
       IN  IF ~ev.finishListener THEN Install(s0)
           ELSE IF _hasHook("onResponse")
           THEN \E s2 \in CallHook(s1, a) : Install(Fin(s2))
           ELSE Install(Fin(s0))
    /\ Frame

\* the response's 'close' event: the connection is gone
Close ==
    /\ Macro
    /\ ~ev.closed
    /\ ~res.finished               \* afterwards cleanup changes nothing
    /\ Install([Cur EXCEPT !.ev.closed = TRUE,
                           !.res = IF ev.closeListener THEN onClose(@) ELSE @])
    /\ Frame

Next ==
    \/ attach \/ _addRoute \/ addHook \/ error
    \/ _handleRequest
    \/ RunImmediate \/ CatchNext \/ ResumeAwait \/ ResumeHooks
    \/ StepResume \/ HookSettle
    \/ Finish \/ Close

Spec == Init /\ [][Next]_vars

\* Spec with hook handlers that do not stay pending for ever: what a
\* pending handler waits for (a timer, I/O) is delivered by the event loop
SpecLive == Spec /\ WF_vars(HookSettle)

\* ------------------------------------------------- SpecRes: one response
\* A decorated response inside a request, after _handleRequest attached its
\* listeners; user code, stream callbacks and the error pipeline act on it.
InitRes ==
    /\ middleware = <<>>
    /\ router = {}
    /\ hooks = [n \in RequestHooks |-> <<>>]
    /\ errorHandler = "default"
    /\ phase = "response"
    /\ reqPath = RoutePath
    /\ res = NewRes
    /\ ctx = NewCtx
    /\ acts = <<>>
    /\ immq = <<>>
    /\ call = NoCall
    /\ ev = [NewEv EXCEPT !.finishListener = TRUE, !.closeListener = TRUE]
    /\ trace = <<>>
    /\ hlog = [n \in RequestHooks |-> <<>>]
    /\ glog = NewLog
    /\ files = <<>>
    /\ last = NoLast
    /\ nodeEnv = ""
    /\ promises = <<>>
    /\ fan = NoFan
    /\ plugins = {}
    /\ _currentGroupPrefix = <<>>
    /\ groups = <<>>
    /\ req = NewReq

ResFrame == UNCHANGED <<appVars, envVars, phase, reqPath, ctx, acts, immq, call, trace, hlog, glog>>

Apply(op, u) ==
    /\ res' = u.res
    /\ last' = [NoLast EXCEPT !.op = op, !.threw = u.threw]

FileCodes == {"ENOENT", "EACCES", "EIO"}
StreamAttached == \E i \in 1..Len(files) : files[i] \in {"created", "piping", "ended", "failed"}

\* res.send(data)
ResSend ==
    /\ phase = "response"
    /\ \E d \in DataVals : Apply("send", send(res, d))
    /\ UNCHANGED <<ev, files>> /\ ResFrame

\* res.json(data)
ResJson ==
    /\ phase = "response"
    /\ \E d \in DataVals : Apply("json", json(res, d))
    /\ UNCHANGED <<ev, files>> /\ ResFrame

\* res.sendStatus(204)
ResSendStatus ==
    /\ phase = "response"
    /\ Apply("sendStatus", sendStatus(res, 204))
    /\ UNCHANGED <<ev, files>> /\ ResFrame

\* res.redirect(url)
ResRedirect ==
    /\ phase = "response"
    /\ Apply("redirect", redirect(res, "/to", 302))
    /\ UNCHANGED <<ev, files>> /\ ResFrame

\* res.status(201)
ResStatus ==
    /\ phase = "response"
    /\ Apply("status", [res |-> status(res, 201), threw |-> FALSE])
    /\ UNCHANGED <<ev, files>> /\ ResFrame

\* res.sendFile(path): the guard, then fs.access is started
ResSendFile ==
    /\ phase = "response"
    /\ Len(files) < MaxFiles
    /\ LET g == sendFileCall(res)
       IN  /\ Apply("sendFile", [res |-> g.res, threw |-> FALSE])
           /\ files' = IF g.blocked THEN files ELSE Append(files, "access")
    /\ UNCHANGED ev /\ ResFrame

\* fs.access resolved: the stream is created, its listeners and cleanup attached
FileAccessOk ==
    /\ phase = "response"
    /\ \E i \in 1..Len(files) :
         /\ files[i] = "access"
         /\ files' = [files EXCEPT ![i] = "created"]
    /\ last' = [NoLast EXCEPT !.op = "access"]
    /\ UNCHANGED <<res, ev>> /\ ResFrame

\* fs.access rejected: the catch
FileAccessFail ==
    /\ phase = "response"
    /\ \E i \in 1..Len(files), code \in FileCodes :
         /\ files[i] = "access"
         /\ files' = [files EXCEPT ![i] = "unreadable"]
         /\ Apply("accessFail", [res |-> sendFileError(res, FileErrStatus(code)), threw |-> FALSE])
    /\ UNCHANGED ev /\ ResFrame

\* the stream's 'open' listener
StreamOpen ==
    /\ phase = "response"
    /\ \E i \in 1..Len(files) :
         /\ files[i] = "created"
         /\ LET o == sendFileOpen(res)
            IN  /\ files' = [files EXCEPT ![i] = IF o.piped THEN "piping" ELSE "ended"]
                /\ Apply("open", [res |-> o.res, threw |-> FALSE])
    /\ UNCHANGED ev /\ ResFrame

\* the stream's 'error' listener
StreamError ==
    /\ phase = "response"
    /\ \E i \in 1..Len(files), code \in FileCodes \ {"ENOENT"} :
         /\ files[i] \in {"created", "piping"}
         /\ files' = [files EXCEPT ![i] = "failed"]
         /\ Apply("streamError", [res |-> sendFileError(res, StreamErrStatus(code)), threw |-> FALSE])
    /\ UNCHANGED ev /\ ResFrame

\* the piped stream ends: pipe() ends the response
StreamEnd ==
    /\ phase = "response"
    /\ \E i \in 1..Len(files) :
         /\ files[i] = "piping"
         /\ files' = [files EXCEPT ![i] = "ended"]
    /\ Apply("streamEnd", [res |-> end(res, "file"), threw |-> FALSE])
    /\ UNCHANGED ev /\ ResFrame

\* _handleError after the onError hooks, with the default or a custom handler
ResHandleError ==
    /\ phase = "response"
    /\ \E err \in ErrVals \ {ValNil}, beh \in (CustomBehaviours \ {"reject"}) \cup {"default"} :
         /\ res' = handleErrorTail(res, Normalize(err),
                                   IF beh = "default" THEN "default" ELSE "custom", beh)
         /\ last' = [NoLast EXCEPT !.op = "handleError", !.beh = beh,
                                   !.arg = IF beh \in {"none", "json"}
                                           THEN Normalize(err).statusCode ELSE 0]
    /\ UNCHANGED <<ev, files>> /\ ResFrame

\* the 'finish' event: cleanup of _handleRequest and of sendFile
ResFinish ==
    /\ phase = "response"
    /\ res.writableEnded /\ ~res.destroyed /\ ~ev.finishFired /\ ~ev.closed
    /\ ev' = [ev EXCEPT !.finishFired = TRUE, !.closeListener = FALSE]
    /\ Apply("finish", [res |-> onFinish(res), threw |-> FALSE])
    /\ UNCHANGED files /\ ResFrame

\* the 'close' event: cleanup of _handleRequest and of sendFile
ResClose ==
    /\ phase = "response"
    /\ ~ev.closed
    /\ ev' = [ev EXCEPT !.closed = TRUE]
    /\ Apply("close", [res |-> IF StreamAttached /\ ~ev.finishFired THEN onFinish(res)
                               ELSE IF ev.closeListener THEN onClose(res) ELSE res,
                       threw |-> FALSE])
    /\ UNCHANGED files /\ ResFrame

NextRes ==
    \/ ResSend \/ ResJson \/ ResSendStatus \/ ResRedirect \/ ResStatus \/ ResSendFile
    \/ FileAccessOk \/ FileAccessFail \/ StreamOpen \/ StreamError \/ StreamEnd
    \/ ResHandleError \/ ResFinish \/ ResClose

SpecRes == InitRes /\ [][NextRes]_vars

\* ------------------------------------------ SpecErr: the error tail alone
\* A response on which steps set a status or send, and on which the tail of
\* _handleError then runs, in a process started with any NODE_ENV.
InitErr ==
    /\ middleware = <<>>
    /\ router = {}
    /\ hooks = [n \in RequestHooks |-> <<>>]
    /\ errorHandler = "default"
    /\ phase = "response"
    /\ reqPath = RoutePath
    /\ res = NewRes
    /\ ctx = NewCtx
    /\ acts = <<>>
    /\ immq = <<>>
    /\ call = NoCall
    /\ ev = [NewEv EXCEPT !.finishListener = TRUE, !.closeListener = TRUE]
    /\ trace = <<>>
    /\ hlog = [n \in RequestHooks |-> <<>>]
    /\ glog = NewLog
    /\ files = <<>>
    /\ last = NoLast
    /\ nodeEnv \in NodeEnvs
    /\ promises = <<>>
    /\ fan = NoFan
    /\ plugins = {}
    /\ _currentGroupPrefix = <<>>
    /\ groups = <<>>
    /\ req = NewReq

\* res.status(404): a step reports a client error before it fails
ResErrorStatus ==
    /\ phase = "response"
    /\ Apply("status", [res |-> status(res, 404), threw |-> FALSE])
    /\ UNCHANGED <<ev, files>> /\ ResFrame

NextErr ==
    \/ ResSend \/ ResJson \/ ResSendStatus \/ ResStatus \/ ResErrorStatus
    \/ ResHandleError \/ ResFinish \/ ResClose

SpecErr == InitErr /\ [][NextErr]_vars

\* ------------------------------------------- SpecPar: parallel(handlerList)
\* The objects a producer resolves with: properties a and b (0: no such
\* property), and circ for an object JSON.stringify rejects.
Empty == [a |-> 0, b |-> 0, circ |-> FALSE]
ProducerObjects == {[Empty EXCEPT !.a = 1], [Empty EXCEPT !.a = 2], [Empty EXCEPT !.b = 1],
                    [Empty EXCEPT !.circ = TRUE]}
Keys == {"a", "b"}

\* What one entry of `promises` settles to, after its .then and .catch:
\*   data      the producer's object
\*   other     null, undefined or a value that is no object
\*   marker    { _neo_parallel_error: true }: the producer failed with an Error
\*   rejected  the .catch callback itself threw reading `err.message` of a
\*             null or undefined rejection
Pending == [st |-> "pending", data |-> Empty]
Settled == {[st |-> "data", data |-> o] : o \in ProducerObjects}
           \cup {[st |-> s, data |-> Empty] : s \in {"other", "marker", "rejected"}}

\* { ...acc, ...data }
Spread(acc, data) == [a    |-> IF data.a # 0 THEN data.a ELSE acc.a,
                      b    |-> IF data.b # 0 THEN data.b ELSE acc.b,
                      circ |-> acc.circ \/ data.circ]

\* { ...data, ...acc }: the earlier producer wins
reduceEarlierWins(results, n) ==
    LET RECURSIVE Fold(_)
        Fold(i) == IF i = 0 THEN Empty
                   ELSE IF results[i].st = "data" THEN Spread(results[i].data, Fold(i - 1))
                   ELSE Fold(i - 1)
    IN  Fold(n)

\* results.reduce(..., {}) over the first n results
reduce(results, n) ==
    LET RECURSIVE Fold(_)
        Fold(i) == IF i = 0 THEN Empty
                   ELSE IF results[i].st = "data" THEN Spread(Fold(i - 1), results[i].data)
                   ELSE Fold(i - 1)
    IN  Fold(n)

\* JSON.stringify of a merged object without a circular reference
StringifyObject(o) ==
    LET A == IF o.a # 0 THEN "a:" \o ToString(o.a) ELSE ""
        B == IF o.b # 0 THEN "b:" \o ToString(o.b) ELSE ""
    IN  "json:{" \o A \o (IF o.a # 0 /\ o.b # 0 THEN "," ELSE "") \o B \o "}"

\* res.json(aggregatedData)
jsonObject(r, o) ==
    LET g == guardResponse(r) IN
    IF g.blocked THEN [res |-> g.res, threw |-> FALSE]
    ELSE IF o.circ THEN [res |-> r, threw |-> TRUE]
    ELSE finishResponse(r, StringifyObject(o), CtJson)

InitPar ==
    /\ middleware = <<>>
    /\ router = {}
    /\ hooks = [n \in RequestHooks |-> <<>>]
    /\ errorHandler = "default"
    /\ phase = "fanout"
    /\ reqPath = RoutePath
    /\ res = NewRes
    /\ ctx = NewCtx
    /\ acts = <<>>
    /\ immq = <<>>
    /\ call = NoCall
    /\ ev = [NewEv EXCEPT !.finishListener = TRUE, !.closeListener = TRUE]
    /\ trace = <<>>
    /\ hlog = [n \in RequestHooks |-> <<>>]
    /\ glog = NewLog
    /\ files = <<>>
    /\ last = NoLast
    /\ nodeEnv = ""
    /\ promises = <<>>
    /\ fan = NoFan
    /\ plugins = {}
    /\ _currentGroupPrefix = <<>>
    /\ groups = <<>>
    /\ req = NewReq

ParFrame == UNCHANGED <<appVars, phase, reqPath, ctx, acts, immq, call, ev, trace, hlog, glog,
                        files, last, nodeEnv, plugins, _currentGroupPrefix, groups, req>>

\* parallel(handlerList): the list is checked and the handler returned
parallel ==
    /\ phase = "fanout"
    /\ fan.phase = "none"
    /\ \E n \in 0..MaxProducers : fan' = [fan EXCEPT !.phase = "created", !.handlerList = n]
    /\ UNCHANGED <<res, promises>> /\ ParFrame

\* the returned handler is called: every producer is started, then
\* `await Promise.all(promises)`
parallelHandler ==
    /\ phase = "fanout"
    /\ fan.phase = "created"
    /\ promises' = [i \in 1..fan.handlerList |-> Pending]
    /\ fan' = [fan EXCEPT !.phase = "running"]
    /\ UNCHANGED res /\ ParFrame

\* a producer returns, resolves, throws or rejects, and its .catch has run
ProducerSettle ==
    /\ phase = "fanout"
    /\ \E i \in 1..Len(promises), v \in Settled :
         /\ promises[i] = Pending
         /\ promises' = [promises EXCEPT ![i] = v]
         /\ fan' = [fan EXCEPT !.order = Append(@, i)]
    /\ UNCHANGED res /\ ParFrame

\* Promise.all(promises): fulfilled with the values in list order
results == promises

\* Promise.all settled: fulfilled once every promise is, rejected as soon as
\* one of them is
AllFulfilled == \A i \in 1..Len(promises) : promises[i].st \in {"data", "other", "marker"}
AnyRejected == \E i \in 1..Len(promises) : promises[i].st = "rejected"

\* the handler after `await Promise.all(promises)`: reduce and res.json, or
\* the catch and next(err)
parallelResume ==
    /\ phase = "fanout"
    /\ fan.phase = "running"
    /\ AllFulfilled \/ AnyRejected
    /\ IF AnyRejected
       THEN /\ fan' = [fan EXCEPT !.phase = "done", !.passed = "TypeError:message"]
            /\ UNCHANGED res
       ELSE LET aggregatedData == reduce(results, Len(results))
                u == jsonObject(res, aggregatedData)
            IN  /\ res' = u.res
                /\ fan' = [fan EXCEPT !.phase = "done", !.aggregatedData = aggregatedData,
                                      !.passed = IF u.threw THEN "TypeError:circular" ELSE "none"]
    /\ UNCHANGED promises /\ ParFrame

\* next(err) of the catch: the queued next runs, _handleError calls the
\* default error handler
parallelNext ==
    /\ phase = "fanout"
    /\ fan.phase = "done" /\ fan.passed # "none" /\ ~fan.handled
    /\ fan' = [fan EXCEPT !.handled = TRUE]
    /\ res' = handleErrorTail(res, ErrPlain, "default", "default")
    /\ UNCHANGED promises /\ ParFrame

NextPar == parallel \/ parallelHandler \/ ProducerSettle \/ parallelResume \/ parallelNext

SpecPar == InitPar /\ [][NextPar]_vars

\* ------------------------------------------------ registration, any input
\* the hook names the framework runs or documents, and one it does not know
CoreHooks == RequestHooks \cup {"onListen"}
HookNames == CoreHooks \cup {"onTypo"}
\* typeof handlerFn
FnKinds == {"function", "notFunction"}

\* this.hooks.get(hookName) || []
hooksGet(h, hookName) == IF hookName \in DOMAIN h THEN h[hookName] ELSE <<>>

\* addHook(hookName, handlerFn) on the hook map h
addHookCall(h, hookName, handlerFn) ==
    IF handlerFn # "function" THEN [hooks |-> h, threw |-> TRUE]
    ELSE LET handlers == hooksGet(h, hookName)
         IN  [hooks |-> [n \in DOMAIN h \cup {hookName} |->
                            IF n = hookName THEN Append(handlers, Len(handlers) + 1)
                            ELSE h[n]],
              threw |-> FALSE]

PluginNames == {"Cors", "Auth"}
\* what the load(app) of a plugin does: nothing, app.addHook('onRequest', fn),
\* app.attach(fn), throw an Error, throw a value that is null or undefined
LoadBehs == {"none", "addHook", "attach", "throw", "throwNil"}

\* The first argument of plug(): a named class extending BasePlugin whose
\* instances have a load method ("class") or have none ("noLoad"), such a
\* class without a name ("noName"), and anything else ("notClass").
PluginDefs ==
    {[kind |-> "class", name |-> n, load |-> l] : n \in PluginNames, l \in LoadBehs}
    \cup {[kind |-> "noLoad", name |-> n, load |-> "none"] : n \in PluginNames}
    \cup {[kind |-> k, name |-> "", load |-> "none"] : k \in {"noName", "notClass"}}

\* the registries of the application a plugin can reach
App == [middleware |-> middleware, hooks |-> hooks, plugins |-> plugins]

\* pluginInstance.load(this)
load(app, beh) ==
    CASE beh = "addHook" ->
           [app |-> [app EXCEPT !.hooks = addHookCall(@, "onRequest", "function").hooks],
            threw |-> "no"]
      [] beh = "attach" ->
           [app |-> [app EXCEPT !.middleware = Append(@, [fn |-> Len(@) + 1])],
            threw |-> "no"]
      [] beh = "throw"    -> [app |-> app, threw |-> "error"]
      [] beh = "throwNil" -> [app |-> app, threw |-> "nil"]
      [] OTHER            -> [app |-> app, threw |-> "no"]

\* plug without the look-up in this.plugins
pluginsHasNever(app, pluginName) == FALSE

\* this.plugins.has(pluginName)
pluginsHas(app, pluginName) == pluginName \in app.plugins

\* plug(PluginClass, options): threw tells whether the call raised an error
\* to its caller, loads counts its calls of load(app).  An error thrown
\* inside the try block is caught, logged and emitted as 'plugin:error';
\* the catch itself throws when it reads `err.message` of null or undefined.
plug(app, def) ==
    LET caught == [app |-> app, threw |-> FALSE, loads |-> 0]
    IN  IF def.kind \in {"notClass", "noName"} THEN caught
        ELSE IF pluginsHas(app, def.name) THEN [app |-> app, threw |-> FALSE, loads |-> 0]
        ELSE IF def.kind = "noLoad" THEN caught
        ELSE LET l == load(app, def.load)
             IN  IF l.threw = "no"
                 THEN [app |-> [l.app EXCEPT !.plugins = @ \cup {def.name}],
                       threw |-> FALSE, loads |-> 1]
                 ELSE [app |-> l.app, threw |-> l.threw = "nil", loads |-> 1]

\* functions held by the global middleware list and the hook lists
RegCount(app) ==
    Len(app.middleware)
    + Cardinality(UNION {{<<n, i>> : i \in 1..Len(app.hooks[n])} : n \in DOMAIN app.hooks})

RegFrame == UNCHANGED <<phase, reqPath, reqVars, files, nodeEnv, promises, fan,
                        _currentGroupPrefix, groups, req>>

\* app.plug(PluginClass)
RegPlug ==
    /\ phase = "setup"
    /\ \E def \in PluginDefs :
         LET u == plug(App, def)
         IN  /\ RegCount(u.app) <= MaxSetup
             /\ middleware' = u.app.middleware
             /\ hooks' = u.app.hooks
             /\ plugins' = u.app.plugins
             /\ last' = [NoLast EXCEPT !.op = "plug", !.threw = u.threw,
                                       !.beh = def.name, !.kind = def.kind,
                                       !.arg = u.loads]
    /\ UNCHANGED <<router, errorHandler>> /\ RegFrame

\* app.addHook(hookName, handlerFn)
RegAddHook ==
    /\ phase = "setup"
    /\ \E n \in HookNames, f \in FnKinds :
         LET u == addHookCall(hooks, n, f)
         IN  /\ RegCount([App EXCEPT !.hooks = u.hooks]) <= MaxSetup
             /\ hooks' = u.hooks
             /\ last' = [NoLast EXCEPT !.op = "addHook", !.threw = u.threw,
                                       !.beh = n, !.kind = f]
    /\ UNCHANGED <<middleware, router, errorHandler, plugins>> /\ RegFrame

\* the function given to the k-th call of error(): the calls of one
\* application pass different functions
FnName(k) == "fn" \o ToString(k)

\* error(handlerFn) that keeps a handler registered earlier
errorCallKeepFirst(current, handlerFn) ==
    IF handlerFn = "notFunction" THEN [errorHandler |-> current, threw |-> TRUE]
    ELSE [errorHandler |-> IF current = "default" THEN handlerFn ELSE current,
          threw |-> FALSE]

\* error(handlerFn)
errorCall(current, handlerFn) ==
    IF handlerFn = "notFunction" THEN [errorHandler |-> current, threw |-> TRUE]
    ELSE [errorHandler |-> handlerFn, threw |-> FALSE]

\* app.error(handlerFn)
RegError ==
    /\ phase = "setup"
    /\ LET \* how many calls of error() have registered a handler
           n == IF errorHandler = "default" THEN 0
                ELSE CHOOSE k \in 1..MaxSetup : errorHandler = FnName(k)
       IN  /\ n < MaxSetup
           /\ \E f \in {FnName(n + 1), "notFunction"} :
                LET u == errorCall(errorHandler, f)
                IN  /\ errorHandler' = u.errorHandler
                    /\ last' = [NoLast EXCEPT !.op = "error", !.threw = u.threw,
                                                !.beh = f]
    /\ UNCHANGED <<middleware, router, hooks, plugins>> /\ RegFrame

\* _handleError: this.errorHandler(err, req, res)
RegHandleError ==
    /\ phase = "setup"
    /\ last' = [NoLast EXCEPT !.op = "handleError", !.beh = errorHandler, !.arg = 1]
    /\ UNCHANGED <<appVars, plugins>> /\ RegFrame

\* the argument lists of attach() and of the route methods
ArgLists == UNION {[1..n -> FnKinds] : n \in 0..MaxSetup}

\* attach(...middlewareFns): the loop pushes each function as it meets it and
\* throws at the first argument that is not one
attachCall(mw, fns) ==
    LET bad == {i \in 1..Len(fns) : fns[i] # "function"}
        n   == IF bad = {} THEN Len(fns)
               ELSE (CHOOSE i \in bad : \A j \in bad : i <= j) - 1
    IN  [middleware |-> mw \o [i \in 1..n |-> [fn |-> Len(mw) + i]],
         threw |-> bad # {}]

\* app.attach(...middlewareFns)
RegAttach ==
    /\ phase = "setup"
    /\ \E fns \in ArgLists :
         LET u == attachCall(middleware, fns)
         IN  /\ RegCount([App EXCEPT !.middleware = u.middleware]) <= MaxSetup
             /\ middleware' = u.middleware
             /\ last' = [NoLast EXCEPT !.op = "attach", !.threw = u.threw,
                                       !.arg = Len(fns)]
    /\ UNCHANGED <<router, hooks, errorHandler, plugins>> /\ RegFrame

\* _addRoute(method, path, ...args): every check of the path, the handler
\* and the middlewares comes before router.on, which throws for a method and
\* path it already holds
addRouteCall(rt, path, args) ==
    LET n  == Len(args)
        ok == /\ path \notin {"notString", ""}
              /\ n > 0
              /\ \A i \in 1..n : args[i] = "function"
              /\ \A r \in rt : ~(r.method = "GET" /\ r.path = path)
    IN  [router |-> IF ok
                    THEN rt \cup {[method |-> "GET", path |-> path, handler |-> "handler",
                                   store |-> [middlewares |-> [i \in 1..(n - 1) |-> i]]]}
                    ELSE rt,
         threw |-> ~ok]

\* app.get(path, ...args)
RegAddRoute ==
    /\ phase = "setup"
    /\ \E path \in {RoutePath, "", "notString"}, args \in ArgLists :
         LET u == addRouteCall(router, path, args)
         IN  /\ router' = u.router
             /\ last' = [NoLast EXCEPT !.op = "route", !.threw = u.threw,
                                       !.beh = path, !.arg = Len(args)]
    /\ UNCHANGED <<middleware, hooks, errorHandler, plugins>> /\ RegFrame

NextReg ==
    \/ RegPlug \/ RegAddHook \/ RegError \/ RegHandleError
    \/ RegAttach \/ RegAddRoute

SpecReg == Init /\ [][NextReg]_vars

\* ------------------------------------------------------------ route groups
\* Strings that the code takes apart are sequences of their characters.

\* the prefixes given to group() and the paths given to the route methods
Strings == UNION {[1..n -> {"/", "a"}] : n \in 0..MaxLen}

\* s.replace(/\/+/g, '/')
replaceSlashes(s) ==
    LET RECURSIVE run(_, _)
        run(i, out) ==
            IF i > Len(s) THEN out
            ELSE IF s[i] = "/" /\ out # <<>> /\ out[Len(out)] = "/" THEN run(i + 1, out)
            ELSE run(i + 1, Append(out, s[i]))
    IN  run(1, <<>>)

\* normalizeRoutePath that keeps a trailing slash
normalizeRoutePathKeepSlash(prefix, path) ==
    replaceSlashes(prefix \o (IF path # <<>> /\ path[1] = "/" THEN <<>> ELSE <<"/">>) \o path)

\* normalizeRoutePath(prefix, path)
normalizeRoutePath(prefix, path) ==
    LET result == prefix \o (IF path # <<>> /\ path[1] = "/" THEN <<>> ELSE <<"/">>) \o path
        RECURSIVE loop(_, _, _)
        loop(i, clean, lastWasSlash) ==
            IF i > Len(result) THEN clean
            ELSE IF result[i] = "/"
                 THEN IF lastWasSlash THEN loop(i + 1, clean, TRUE)
                      ELSE loop(i + 1, Append(clean, "/"), TRUE)
                 ELSE loop(i + 1, Append(clean, result[i]), FALSE)
        clean == loop(1, <<>>, FALSE)
        cut   == IF Len(clean) > 1 /\ clean[Len(clean)] = "/"
                 THEN SubSeq(clean, 1, Len(clean) - 1) ELSE clean
    IN  IF cut = <<>> THEN <<"/">> ELSE cut

\* group() that starts every prefix afresh
groupFromRoot(originalPrefix, prefix) ==
    LET slashed == IF prefix # <<>> /\ prefix[1] = "/" THEN prefix ELSE <<"/">> \o prefix
        one     == replaceSlashes(slashed)
        seg     == IF one[Len(one)] = "/" THEN SubSeq(one, 1, Len(one) - 1) ELSE one
    IN  [newPrefixSegment |-> seg, currentGroupPrefix |-> seg]

\* group(prefix, callback): its local newPrefixSegment and the value it
\* gives this._currentGroupPrefix before it calls the callback
group(originalPrefix, prefix) ==
    LET slashed == IF prefix # <<>> /\ prefix[1] = "/" THEN prefix ELSE <<"/">> \o prefix
        one     == replaceSlashes(slashed)
        seg     == IF one[Len(one)] = "/" THEN SubSeq(one, 1, Len(one) - 1) ELSE one
    IN  [newPrefixSegment |-> seg,
         currentGroupPrefix |-> replaceSlashes(originalPrefix \o seg)]

\* app.group(prefix, callback) up to its call of the callback; groups holds
\* the locals of the call.  The route is the last thing the application
\* registers.
GroupEnter ==
    /\ phase = "setup"
    /\ router = {}
    /\ Len(groups) < MaxGroups
    /\ \E prefix \in Strings :
         LET g == group(_currentGroupPrefix, prefix)
         IN  /\ groups' = Append(groups, [newPrefixSegment |-> g.newPrefixSegment,
                                          originalPrefix |-> _currentGroupPrefix])
             /\ _currentGroupPrefix' = g.currentGroupPrefix
             /\ last' = [NoLast EXCEPT !.op = "group", !.beh = prefix]
    /\ UNCHANGED <<appVars, phase, reqPath, reqVars, files, nodeEnv, promises, fan,
                   plugins, req>>

\* the callback of the innermost group() returns or throws: the catch and
\* the finally block restore the prefix, and the error is thrown on
GroupLeave ==
    /\ groups # <<>>
    /\ _currentGroupPrefix' = groups[Len(groups)].originalPrefix
    /\ groups' = SubSeq(groups, 1, Len(groups) - 1)
    /\ \E threw \in BOOLEAN : last' = [NoLast EXCEPT !.op = "groupEnd", !.threw = threw]
    /\ UNCHANGED <<appVars, phase, reqPath, reqVars, files, nodeEnv, promises, fan,
                   plugins, req>>

\* app.get(path, handler), inside the callbacks of the groups in progress
GroupRoute ==
    /\ phase = "setup"
    /\ router = {}
    /\ \E path \in Strings :
         IF path = <<>>
         THEN /\ last' = [NoLast EXCEPT !.op = "route", !.threw = TRUE, !.beh = path]
              /\ router' = router
         ELSE LET routePath == normalizeRoutePath(_currentGroupPrefix, path)
              IN  /\ router' = router \cup
                         {[method |-> "GET", path |-> routePath, handler |-> "handler",
                           store |-> [middlewares |-> <<>>]]}
                  /\ last' = [NoLast EXCEPT !.op = "route", !.beh = path,
                                            !.kind = routePath]
    /\ UNCHANGED <<middleware, hooks, errorHandler, phase, reqPath, reqVars, files,
                   nodeEnv, promises, fan, plugins, _currentGroupPrefix, groups, req>>

NextGroup == GroupEnter \/ GroupLeave \/ GroupRoute

SpecGroup == Init /\ [][NextGroup]_vars

\* ------------------------------------------------------------ URL parsing
\* new URLSearchParams(queryString), iterated: the [key, value] pairs in
\* the order of the string; pieces are separated by "&", an empty piece is
\* skipped, the key ends at the first "=" (the characters used here need
\* no decoding)
URLSearchParams(queryString) ==
    LET RECURSIVE pieces(_, _, _)
        \* cur: the piece being read, out: the pieces read
        pieces(i, cur, out) ==
            IF i > Len(queryString) THEN (IF cur = <<>> THEN out ELSE Append(out, cur))
            ELSE IF queryString[i] = "&"
                 THEN pieces(i + 1, <<>>, IF cur = <<>> THEN out ELSE Append(out, cur))
                 ELSE pieces(i + 1, Append(cur, queryString[i]), out)
        pair(pc) ==
            LET eqs == {i \in 1..Len(pc) : pc[i] = "="}
                e   == IF eqs = {} THEN Len(pc) + 1
                       ELSE CHOOSE i \in eqs : \A j \in eqs : i <= j
            IN  <<SubSeq(pc, 1, e - 1), SubSeq(pc, e + 1, Len(pc))>>
        ps == pieces(1, <<>>, <<>>)
    IN  [i \in 1..Len(ps) |-> pair(ps[i])]

\* parseQuery: `query[key] = value` for each pair in turn
parseQuery(searchParams) ==
    LET RECURSIVE assign(_, _)
        assign(i, query) ==
            IF i > Len(searchParams) THEN query
            ELSE LET key   == searchParams[i][1]
                     value == searchParams[i][2]
                 IN  assign(i + 1, [k \in DOMAIN query \cup {key} |->
                                       IF k = key THEN value ELSE query[k]])
    IN  assign(1, <<>>)

\* the URLs of the requests: a path, then nothing, or "?" and up to
\* MaxPairs pairs joined by "&"
Urls ==
    LET Pairs == {<<k, "=", v>> : k \in {"q", "x"}, v \in {"a", "b", "1"}}
        RECURSIVE join(_)
        join(ps) == IF ps = <<>> THEN <<>>
                    ELSE IF Len(ps) = 1 THEN ps[1]
                    ELSE ps[1] \o <<"&">> \o join(Tail(ps))
        Queries == {join(ps) : ps \in UNION {[1..n -> Pairs] : n \in 0..MaxPairs}}
    IN  {pt \o qs : pt \in {<<"/">>, <<"/", "s">>},
                    qs \in {<<>>} \cup {<<"?">> \o q : q \in Queries}}

InitUrl ==
    /\ middleware = <<>>
    /\ router = {}
    /\ hooks = [n \in RequestHooks |-> <<>>]
    /\ errorHandler = "default"
    /\ phase = "serving"
    /\ reqPath = ""
    /\ res = NewRes
    /\ ctx = NewCtx
    /\ acts = <<>>
    /\ immq = <<>>
    /\ call = NoCall
    /\ ev = NewEv
    /\ trace = <<>>
    /\ hlog = [n \in RequestHooks |-> <<>>]
    /\ glog = NewLog
    /\ files = <<>>
    /\ last = NoLast
    /\ nodeEnv = ""
    /\ promises = <<>>
    /\ fan = NoFan
    /\ plugins = {}
    /\ _currentGroupPrefix = <<>>
    /\ groups = <<>>
    /\ \E url \in Urls : req = [NewReq EXCEPT !.url = url]

\* _handleRequest: req.pathname and req.query from req.url
UrlParse ==
    /\ last.op = "none"
    /\ LET marks == {i \in 1..Len(req.url) : req.url[i] = "?"}
           questionMarkIndex == IF marks = {} THEN 0
                                ELSE CHOOSE i \in marks : \A j \in marks : i <= j
       IN  req' = IF questionMarkIndex = 0
                  THEN [req EXCEPT !.pathname = req.url, !.query = <<>>]
                  ELSE [req EXCEPT
                          !.pathname = SubSeq(req.url, 1, questionMarkIndex - 1),
                          !.query = parseQuery(URLSearchParams(
                                       SubSeq(req.url, questionMarkIndex + 1, Len(req.url))))]
    /\ last' = [NoLast EXCEPT !.op = "url"]
    /\ UNCHANGED <<appVars, phase, reqPath, reqVars, files, nodeEnv, promises, fan,
                   plugins, _currentGroupPrefix, groups>>

SpecUrl == InitUrl /\ [][UrlParse]_vars

\* ------------------------------------------------------------- properties
\* nothing of the request is left to run: no activation, no queued next()
Quiescent == phase = "serving" /\ acts = <<>> /\ immq = <<>> /\ ~call.pending

IsPrefix(p, q) == Len(p) <= Len(q) /\ SubSeq(q, 1, Len(p)) = p
NoRepeat(q) == \A i, j \in 1..Len(q) : i # j => q[i] # q[j]
Steps == {trace[i] : i \in 1..Len(trace)}
HandlerStep == <<"handler", 0>>

\* the chain of a matched request: global middleware, route middleware, handler
Chain == [i \in 1..Len(middleware) |-> <<"global", i>>]
         \o [i \in 1..RouteMws |-> <<"route", i>>]
         \o <<HandlerStep>>

Globals == [i \in 1..Len(middleware) |-> <<"global", i>>]
ErrStatus(e) == IF e.statusCode >= 400 THEN e.statusCode ELSE 500

\* nothing but the chain acted on the response: the client stayed connected,
\* no hook finished the response and no request-path hook failed
ChainUndisturbed == ctx.started /\ ~ev.closed /\ ~glog.hookFinished /\ ~glog.hookFailed

\* every one of the n middleware invoked its continuation without an error,
\* none of them failed and none finished the response
MiddlewarePassOn(n) == glog.conts = n /\ glog.raised = {} /\ ~glog.mwFinished

\* C1: for a matched request whose middleware each pass on once, without a
\* failure and without finishing the response, the steps that have run are
\* the global middleware in attachment order, then the route's middleware in
\* registration order, then the handler, each once; and at any moment the
\* steps begun are an initial part of that order.
C1_ChainOrder ==
    /\ ctx.matched => IsPrefix(trace, Chain)
    /\ (Quiescent /\ ctx.matched /\ ChainUndisturbed
           /\ MiddlewarePassOn(Len(middleware) + RouteMws)) => trace = Chain

\* a global middleware, a route middleware and the handler have run, in this order
C1_Witness ==
    /\ Quiescent /\ ctx.matched /\ ChainUndisturbed /\ MiddlewarePassOn(2)
    /\ trace = <<<<"global", 1>>, <<"route", 1>>, HandlerStep>>

\* C3: a failure raised by a step while the response is unfinished reaches
\* the terminal error handler, and the default handler answers with the
\* failure's status when it is at least 400 and with 500 otherwise.
C3_FailureReachesHandler ==
    (Quiescent /\ ~ev.closed /\ glog.raised # {}) =>
        /\ \A e \in glog.raised : Normalize(e) \in glog.handled
        /\ (errorHandler = "default" /\ Len(res.sent) = 1 /\ res.sent[1].body = Stringify(ErrorBody))
              => res.sent[1].status \in {ErrStatus(Normalize(e)) : e \in glog.raised}

\* C4: for an unmatched request whose global middleware each pass on, the
\* error pipeline is entered once, with an error of status 404, after all
\* global middleware have run, and the default handler answers 404.
C4_NotFound ==
    (Quiescent /\ ~ctx.matched /\ ChainUndisturbed /\ MiddlewarePassOn(Len(middleware))) =>
        /\ trace = Globals
        /\ glog.nEntered = 1
        /\ \A e \in glog.entered : e.statusCode = 404
        /\ glog.handled = glog.entered
        /\ errorHandler = "default" =>
              res.finished /\ Len(res.sent) = 1 /\ res.sent[1].status = 404

\* two global middleware have run and the 404 of the chain fallback was sent
C4_Witness ==
    /\ Quiescent /\ ~ctx.matched /\ ChainUndisturbed /\ MiddlewarePassOn(2)
    /\ trace = <<<<"global", 1>>, <<"global", 2>>>>
    /\ glog.nEntered = 1 /\ Len(res.sent) = 1 /\ res.sent[1].status = 404

\* C5: when the default terminal error handler has handled a failure (the
\* client still connected) the response is finished and one response was sent.
C5_OneResponse ==
    [][(glog'.nHandled > glog.nHandled /\ errorHandler = "default" /\ ~ev.closed)
         => (res'.finished /\ Len(res'.sent) = 1)]_vars

\* C6: once a step has signalled a failure (here: an Error, handled by the
\* default error handler) no further step begins.
C6_FailureStopsChain ==
    [][(glog.raised = {ErrPlain} /\ errorHandler = "default") => trace' = trace]_vars

\* C9: a step begins only when no earlier step is still executing.
C9_Sequential ==
    [][trace' # trace => \A a \in 1..Len(acts) : acts[a].body # "pending"]_vars

\* the terminal operations on the response, the sends of sendFile's callbacks
\* and of the error pipeline included
TerminalOp == \/ ResSend \/ ResJson \/ ResSendStatus \/ ResRedirect \/ ResSendFile
              \/ FileAccessFail \/ StreamOpen \/ StreamError \/ ResHandleError

\* C2: once a response has been written, a terminal operation writes nothing
\* more, leaves what was sent as it is, and does not throw.
C2_LaterOpsAreNoOps ==
    [][(TerminalOp /\ Len(res.sent) = 1) => (res'.sent = res.sent /\ ~last'.threw)]_vars

\* C7: a continuation invoked more than once queues next() once only, so the
\* chain advances by one step per middleware, and no middleware and no
\* handler executes twice in one request.
C7_ContinuationOnce == glog.sched <= 1 /\ NoRepeat(trace)

\* the first middleware has just invoked its continuation twice: one next() is queued
C7_Witness == glog.dup /\ trace = <<<<"global", 1>>>> /\ Len(immq) = 1

\* C8: once the response is finished no middleware and no handler begins.
C8_NoStepAfterFinished == [][res.finished => trace' = trace]_vars

\* C10: the preHandler hooks run once, each handler in turn, only for a
\* matched request, after every global and route middleware has begun and
\* before the handler executes.
C10_PreHandlerOnce ==
    LET ph == hlog["preHandler"]
        n  == Len(hooks["preHandler"])
    IN  /\ IsPrefix(ph, [i \in 1..n |-> i])
        /\ ph # <<>> => /\ ctx.matched /\ ctx.handlerExecuted
                        /\ \A i \in 1..Len(middleware) : <<"global", i>> \in Steps
                        /\ \A i \in 1..RouteMws : <<"route", i>> \in Steps
        /\ (ctx.handlerExecuted /\ n > 0) => ph # <<>>
        /\ HandlerStep \in Steps => Len(ph) = n

\* a middleware ran, then the preHandler hook, then the handler
C10_Witness == trace = <<<<"global", 1>>, HandlerStep>> /\ hlog["preHandler"] = <<1>>

\* ------------------------------------------------------------ hook runs
\* One run of _runHooks is one activation: the request's onRequest run, the
\* preHandler run of the step it precedes, the onError run of one call of
\* _handleError, the onResponse run.
Key(act) == <<act.kind, act.step, act.inv>>
SameRun(a, b) == Key(acts[a]) = Key(acts'[b])
\* this step resumed the run of activation a
Consumed(a) == ~\E b \in 1..Len(acts') : SameRun(a, b) /\ acts'[b].pc = acts[a].pc

\* C11: in every run of the handlers of a hook name the handlers are called
\* in registration order, first to last, each one only after the one before
\* it has settled: a handler is called either as the first of a new run or
\* as the successor of a handler of the same run that has returned or
\* resolved, and the call is what the hook's log records next.
C11_HooksInOrder ==
    [][\A b \in 1..Len(acts') :
          LET n    == acts'[b]
              Prev == {a \in 1..Len(acts) : SameRun(a, b)}
          IN  n.hookIdx >= 1 =>
                \/ \E a \in Prev : acts[a].hookIdx = n.hookIdx
                \/ /\ hlog'[HookOf(n.kind)] = Append(hlog[HookOf(n.kind)], n.hookIdx)
                   /\ n.hookIdx <= Len(hooks[HookOf(n.kind)])
                   /\ \/ n.hookIdx = 1 /\ \A a \in Prev : acts[a].hookIdx = 0
                      \/ \E a \in Prev : /\ acts[a].hookIdx = n.hookIdx - 1
                                         /\ acts[a].hookIdx >= 1
                                         /\ acts[a].pc = "hookOk"
                                         /\ ~acts[a].hrun]_vars

\* two onResponse handlers have run, one after the other
C11_Witness ==
    /\ Len(hooks["onResponse"]) = 2
    /\ hlog["onResponse"] = <<1, 2>>
    /\ res.finished

C13_OnErrorFailureLogged ==
    /\ []((hooks["onRequest"] = <<>> /\ hooks["preHandler"] = <<>>) => ErrHook \notin glog.entered)
    /\ [][\A a \in 1..Len(acts) :
            (acts[a].kind = "err" /\ acts[a].pc = "hookErr" /\ Consumed(a)) =>
                /\ glog'.nEntered = glog.nEntered
                /\ glog'.nHandled = glog.nHandled + 1
                /\ acts[a].err \in glog'.handled
                /\ "onErrorHookFailed" \in glog'.notes]_vars

\* an onError handler failed and the default handler answered the original
\* failure of the step
C13_Witness ==
    /\ "onErrorHookFailed" \in glog.notes
    /\ glog.raised = {ErrPlain}
    /\ glog.handled = {ErrPlain}
    /\ glog.nEntered = 1
    /\ errorHandler = "default"
    /\ Len(res.sent) = 1 /\ res.sent[1].status = 500

\* C15: no failure of the request's user code escapes the pipeline as an
\* uncaught exception or an unhandled rejection.
C15_NothingEscapes == "unhandledRejection" \notin glog.notes

\* C16: a failure signalled when the response is already finished is never
\* passed to the terminal error handler: the handler is never called with a
\* failure that was signalled after the response had been sent.
C16_LateFailureAbsorbed == ~("late" \in glog.notes /\ Len(res.sent) = 1)

\* ------------------------------------------------- the tail of _handleError
\* the step called the terminal error handler, which threw synchronously
HandlerThrew == last'.op = "handleError" /\ last'.beh \in {"throw", "jsonThrow"}
\* the status the handler is to find on a response that has not started
StatusFromError == IF last'.arg >= 400 THEN last'.arg ELSE 500

\* C14: when the terminal error handler throws, the response ends finished;
\* if nothing had been sent, one response is on the wire afterwards (the
\* hardcoded 500 body when the handler itself sent nothing); if the headers
\* were flushed and the response not ended, the connection is destroyed.
C14_HandlerThrowFallback ==
    [][HandlerThrew =>
          /\ res'.finished
          /\ (res.sent = <<>> /\ ~res.headersSent) =>
                /\ Len(res'.sent) = 1
                /\ last'.beh = "throw" => /\ res'.sent[1].status = 500
                                          /\ res'.sent[1].body = "json:fallback"
          /\ (res.headersSent /\ ~res.writableEnded) => res'.destroyed]_vars

\* C17 as stated: a status a step has just set with res.status() is the
\* status the terminal error handler finds.
C17_ExplicitStatusKept ==
    [][(last.op = "status" /\ last'.op = "handleError" /\ last'.beh = "none")
          => res'.statusCode = res.statusCode]_vars

\* C17: on a response that has not started and is not finished, the status
\* the terminal error handler finds (and sends with) is the error's status
\* when that is at least 400 and 500 otherwise, unless the response already
\* carries a status of at least 400, which is kept; a status below 400 is
\* overwritten. On a started or finished response the status is left alone.
C17_StatusFromError ==
    [][(last'.op = "handleError" /\ last'.beh \in {"none", "json"}) =>
          LET fresh    == ~res.headersSent /\ ~res.finished
              expected == IF fresh /\ res.statusCode < 400 THEN StatusFromError
                          ELSE res.statusCode
          IN  /\ res'.statusCode = expected
              /\ (fresh /\ last'.beh = "json") =>
                    (Len(res'.sent) = 1 /\ res'.sent[1].status = expected)]_vars

\* a step had set 404, the error carries no status: the handler finds 404
C17_Witness ==
    /\ last.op = "handleError" /\ last.beh = "none" /\ last.arg = 0
    /\ res.statusCode = 404
    /\ ~res.finished /\ ~res.headersSent

\* C18: a body the default error handler sent carries a stack trace only
\* when the development flag is set.
C18_NoStackByDefault ==
    \A i \in 1..Len(res.sent) :
        res.sent[i].body = Stringify("errorStack") => nodeEnv = "development"

\* ------------------------------------------------------------- the fan-out
\* the producers that succeeded with an object
Succeeded == {i \in 1..Len(promises) : promises[i].st = "data"}
Has(i, k) == IF k = "a" THEN promises[i].data.a # 0 ELSE promises[i].data.b # 0
ValueOf(o, k) == IF k = "a" THEN o.a ELSE o.b
Last(S) == CHOOSE i \in S : \A j \in S : j <= i
\* the merged object went out as a normal response
MergedSent ==
    /\ fan.phase = "done" /\ fan.passed = "none"
    /\ Len(res.sent) = 1
    /\ res.sent[1].status = 200
    /\ res.sent[1].body = StringifyObject(fan.aggregatedData)

\* C19: when the handler is through and what the successful producers
\* returned can be serialised, the failure of a producer has not reached the
\* error pipeline and the merge was sent as a normal response, with exactly
\* the keys of the producers that succeeded.
C19_FailedProducerOmitted ==
    (fan.phase = "done" /\ \A i \in Succeeded : ~promises[i].data.circ) =>
        /\ MergedSent
        /\ \A k \in Keys : (ValueOf(fan.aggregatedData, k) # 0) <=> (\E i \in Succeeded : Has(i, k))

\* C20: in the merged object that was sent, every key carries the value of
\* the last producer of the list that returned it, whatever the order in
\* which the producers settled; a key no producer returned is absent.
C20_LaterWins ==
    (fan.phase = "done" /\ fan.passed = "none") =>
        /\ MergedSent
        /\ \A k \in Keys :
              LET H == {i \in Succeeded : Has(i, k)}
              IN  ValueOf(fan.aggregatedData, k) =
                      IF H = {} THEN 0 ELSE ValueOf(promises[Last(H)].data, k)

\* producers {a:1}, {a:2} in list order, the second settled first: a:2 is sent
C20_Witness ==
    /\ MergedSent
    /\ Len(promises) = 2
    /\ promises[1].data.a = 1 /\ promises[2].data.a = 2
    /\ fan.order = <<2, 1>>
    /\ res.sent[1].body = "json:{a:2}"

\* C21: the handler goes on after `await Promise.all(promises)`, to send the
\* response or to enter the error path, only when every producer has
\* settled: none is still pending once it is through.
C21_AllSettledFirst ==
    fan.phase = "done" => \A i \in 1..Len(promises) : promises[i] # Pending

\* C22: the fan-out handler passes a failure to next(err) only when the
\* merged object could not be serialised, and the error pipeline answers it
\* with the default handler's 500.
C22_OnlyMergeFailurePropagates ==
    /\ fan.passed # "none" =>
          /\ fan.passed = "TypeError:circular"
          /\ \E i \in Succeeded : promises[i].data.circ
    /\ fan.handled => (Len(res.sent) = 1 /\ res.sent[1].status = 500)

\* C23: when the connection's close arrives before the response is finished,
\* the response is marked finished, and from then on nothing more is written
\* and no further chain step is started for that request.
C23_CloseSuppresses ==
    [][ev'.closed => /\ res'.finished
                     /\ (ev.closed => (trace' = trace /\ res'.sent = res.sent))]_vars

\* C24: every terminal operation (send, json, sendStatus, redirect, sendFile)
\* called on an unfinished response has set the finished flag by the time it
\* returns, so a terminal operation called afterwards is rejected.
C24_TerminalSetsFinished ==
    [][(/\ last'.op \in {"send", "json", "sendStatus", "redirect", "sendFile"}
        /\ ~res.finished
        /\ ~last'.threw) => res'.finished]_vars

\* C25: when sendFile's file cannot be accessed or read before anything was
\* sent on an unfinished response, an error response (404, 403 or 500) is
\* sent and the response is ended.
C25_SendFileErrorAnswered ==
    [][(/\ last'.op \in {"accessFail", "streamError"}
        /\ ~res.headersSent /\ ~res.finished)
       => (/\ Len(res'.sent) = 1
           /\ res'.sent[1].status \in {404, 403, 500}
           /\ res'.writableEnded)]_vars

\* the chain stopped at a middleware: everything has run to its end, the
\* last step begun is a middleware that neither passed on nor failed, and
\* nobody has finished the response
StalledAtMiddleware ==
    /\ Quiescent /\ ~ev.closed /\ ~res.writableEnded
    /\ trace # <<>> /\ trace[Len(trace)] # HandlerStep
    /\ glog.raised = {} /\ glog.conts = Len(trace) - 1
    /\ ~glog.mwFinished /\ ~glog.hookFinished /\ ~glog.hookFailed

\* C26: when a middleware returns without invoking its continuation and
\* without finishing the response, processing stops there: the error pipeline
\* has not been entered and nothing has been sent, and the only thing that
\* still happens to the request is the close of the connection, whose cleanup
\* marks the response finished without running another step.
C26_StallUntilClose ==
    [][StalledAtMiddleware =>
          /\ glog.nEntered = 0 /\ ~res.finished /\ res.sent = <<>>
          /\ ev'.closed /\ res'.finished
          /\ trace' = trace /\ glog'.nEntered = 0 /\ res'.sent = <<>>]_vars

\* a matched request stopped at its first global middleware, and the close
\* cleanup has fired
C26_Witness ==
    /\ Quiescent /\ ctx.matched /\ Len(middleware) = 2
    /\ trace = <<<<"global", 1>>>>
    /\ glog.raised = {} /\ glog.conts = 0 /\ glog.nEntered = 0
    /\ ev.closed /\ res.finished /\ res.sent = <<>> /\ ~res.writableEnded

\* C27: once the response of a request has been sent by a handler, a
\* middleware or the error pipeline and its 'finish' has been delivered, the
\* onResponse hooks have run, each handler at most once and in registration
\* order, and none of them ran before the response ended.
C27_OnResponseOnce ==
    /\ hlog["onResponse"] # <<>> => res.writableEnded
    /\ (ev.finishFired /\ Len(res.sent) = 1 /\ ~glog.hookFinished) =>
           \E n \in 1..Len(hooks["onResponse"]) : hlog["onResponse"] = [i \in 1..n |-> i]

\* C28: plug() with a class whose name is already loaded is a no-op: load is
\* not called, the plugin registry, the hooks and the middleware stay as
\* they were, and no error is raised.
C28_SecondLoadNoOp ==
    [][(/\ last'.op = "plug"
        /\ last'.kind \in {"class", "noLoad"}
        /\ last'.beh \in plugins)
       => (/\ last'.arg = 0 /\ ~last'.threw
           /\ plugins' = plugins
           /\ UNCHANGED appVars)]_vars

\* a plugin was loaded, its load registered a hook, and plug() was called
\* again with the same name
C28_Witness ==
    /\ last.op = "plug" /\ last.kind = "class" /\ last.beh \in plugins
    /\ last.arg = 0 /\ ~last.threw
    /\ hooks["onRequest"] = <<1>> /\ middleware = <<>>

\* C29: plug() given something that is not a plugin class, or a class whose
\* instances lack a load method, raises an error to its caller.
C29_BadPluginRaises ==
    [][(last'.op = "plug" /\ last'.kind \in {"notClass", "noLoad"}) => last'.threw]_vars

\* C30: addHook raises an error and registers nothing when the hook name is
\* outside {onRequest, preHandler, onResponse, onError, onListen} or the
\* handler is not callable, and otherwise appends the handler to the list
\* of that hook.
C30_HookRegistrationChecked ==
    [][last'.op = "addHook" =>
         IF last'.beh \notin CoreHooks \/ last'.kind # "function"
         THEN last'.threw /\ hooks' = hooks
         ELSE /\ ~last'.threw
              /\ hooksGet(hooks', last'.beh)
                    = Append(hooksGet(hooks, last'.beh), Len(hooksGet(hooks, last'.beh)) + 1)
              /\ \A n \in DOMAIN hooks \ {last'.beh} : hooks'[n] = hooks[n]]_vars

\* C35: the terminal error handler is invoked at most once per request,
\* whatever the interleaving of continuations, throws and onError hooks.
C35_HandlerAtMostOnce == glog.nHandled <= 1

\* C36: when a continuation called without a failure takes effect after the
\* handler of the matched route has been executed, and the response is not
\* finished, the error pipeline is entered with the 404 of the chain
\* fallback and no step, the handler included, is run.
C36_HandlerNextFallsBack ==
    [][(/\ ctx.matched /\ ctx.handlerExecuted
        /\ immq # <<>> /\ ~Head(immq).truthy /\ Len(immq') < Len(immq)
        /\ ~res.finished /\ ~res.writableEnded)
       => (/\ glog'.nEntered = glog.nEntered + 1
           /\ Normalize(ChainFallback) \in glog'.entered
           /\ trace' = trace)]_vars

\* the handler ran once, invoked its continuation, and the default error
\* handler answered the chain fallback with 404
C36_Witness ==
    /\ Quiescent /\ ctx.matched /\ ChainUndisturbed
    /\ trace = <<HandlerStep>> /\ glog.raised = {}
    /\ glog.nEntered = 1 /\ glog.entered = {Normalize(ChainFallback)}
    /\ Len(res.sent) = 1 /\ res.sent[1].status = 404

StepGaveUp ==
    /\ Quiescent /\ ~res.finished /\ trace # <<>>
    /\ \A e \in glog.raised : ~e.truthy
    /\ trace[Len(trace)] # HandlerStep => glog.conts < Len(trace)

\* the event loop has something queued for the request: a setImmediate
\* callback, a catch block to run, the continuation of an await
LoopReady == phase = "serving" /\ (immq # <<>> \/ call.pending \/ MicroReady)

\* a middleware or the handler is still pending
BodyPending == \E a \in 1..Len(acts) : acts[a].body = "pending"

\* C39: on an event loop that runs what is queued, with the default error
\* handler, a request whose hooks settle, whose middleware and handler do
\* not stay pending, whose middleware each pass on or finish the response
\* and whose handler finishes the response or fails, eventually has its
\* response finished.
C39_EventuallyFinished ==
    ([]<>~LoopReady /\ []<>~BodyPending) =>
        ((phase = "serving" /\ errorHandler = "default") ~> (res.finished \/ StepGaveUp))

\* a middleware passed on, the handler failed, and the default error handler
\* finished the response with 500
C39_Witness ==
    /\ Quiescent /\ errorHandler = "default" /\ ~ev.closed
    /\ trace = <<<<"global", 1>>, HandlerStep>>
    /\ glog.raised = {ErrPlain} /\ glog.conts = 1
    /\ res.finished /\ Len(res.sent) = 1 /\ res.sent[1].status = 500

\* C31: one terminal error handler is active at any time. It is the default
\* handler until error() is given a function; a call of error() with a
\* function makes that function the handler, nothing else changes it, and
\* _handleError passes the failure, once, to the handler active at that time.
C31_LastErrorHandlerWins ==
    /\ errorHandler = "default"
    /\ [][/\ (last'.op = "error" /\ ~last'.threw) => errorHandler' = last'.beh
          /\ (last'.op # "error" \/ last'.threw) => errorHandler' = errorHandler
          /\ last'.op = "handleError" =>
                (last'.beh = errorHandler /\ last'.arg = 1)]_vars
\* two handlers were registered one after the other and a failure went to
\* the second
C31_Witness ==
    /\ errorHandler = FnName(2)
    /\ last.op = "handleError" /\ last.beh = FnName(2) /\ last.arg = 1

\* C38: a registration call that fails leaves the registries unchanged:
\* attach() that raises an error has added none of its functions to the
\* global middleware list, and a route registration that raises an error
\* has registered no route.
C38_FailedRegistrationNoEffect ==
    [][(last'.op \in {"attach", "route"} /\ last'.threw)
          => (middleware' = middleware /\ router' = router)]_vars

\* the values the query string of the request gives to key k, in order
QueryValues(k) ==
    LET marks == {i \in 1..Len(req.url) : req.url[i] = "?"}
        sp == IF marks = {} THEN <<>>
              ELSE URLSearchParams(SubSeq(req.url, (CHOOSE i \in marks : TRUE) + 1,
                                          Len(req.url)))
        of == SelectSeq(sp, LAMBDA kv : kv[1] = k)
    IN  [i \in 1..Len(of) |-> of[i][2]]

\* C34: once the URL is parsed, a key that occurs once in the query string
\* is mapped to its value, a key that occurs several times is mapped to the
\* sequence of all its values in order, and the path has no query string.
C34_QueryValuesCollected ==
    last.op = "url" =>
        /\ \A k \in {<<"q">>, <<"x">>} :
              /\ Len(QueryValues(k)) = 1 =>
                    (k \in DOMAIN req.query /\ req.query[k] = QueryValues(k)[1])
              /\ Len(QueryValues(k)) > 1 =>
                    (k \in DOMAIN req.query /\ req.query[k] = QueryValues(k))
        /\ \A i \in 1..Len(req.pathname) : req.pathname[i] # "?"

\* the segments of a path: its maximal runs of characters other than "/"
Segs(s) ==
    LET RECURSIVE scan(_, _, _)
        scan(i, cur, out) ==
            IF i > Len(s) THEN (IF cur = <<>> THEN out ELSE Append(out, cur))
            ELSE IF s[i] = "/"
                 THEN scan(i + 1, <<>>, IF cur = <<>> THEN out ELSE Append(out, cur))
                 ELSE scan(i + 1, Append(cur, s[i]), out)
    IN  scan(1, <<>>, <<>>)
\* the path made of the given segments, "/" before each
JoinSegs(ss) ==
    LET RECURSIVE cat(_)
        cat(i) == IF i > Len(ss) THEN <<>> ELSE <<"/">> \o ss[i] \o cat(i + 1)
    IN  cat(1)
\* the segments of the prefixes of the groups gs, outermost first
GroupSegs(gs) ==
    LET RECURSIVE cat(_)
        cat(i) == IF i > Len(gs) THEN <<>> ELSE Segs(gs[i].newPrefixSegment) \o cat(i + 1)
    IN  cat(1)

\* C32: the segment a call of group() adds is its prefix; the current
\* prefix is always the concatenation of the prefixes of the calls of
\* group() in progress, outermost first; a route registered inside them gets
\* that concatenation followed by its own path; and when a call of group()
\* ends, by return or by throw, the prefix is again what it was before the
\* call.
C32_GroupPrefixScoped ==
    [][/\ _currentGroupPrefix' = JoinSegs(GroupSegs(groups'))
       /\ Len(groups') > Len(groups) =>
             Segs(groups'[Len(groups')].newPrefixSegment) = Segs(last'.beh)
       /\ (last'.op = "route" /\ ~last'.threw) =>
             LET all == GroupSegs(groups) \o Segs(last'.beh)
             IN  /\ last'.kind = IF all = <<>> THEN <<"/">> ELSE JoinSegs(all)
                 /\ \E r \in router' : r.path = last'.kind
       /\ Len(groups') < Len(groups) =>
             _currentGroupPrefix' = groups[Len(groups)].originalPrefix]_vars
\* a route registered inside a group inside a group
C32_Witness ==
    /\ Len(groups) = 2
    /\ groups[1].newPrefixSegment = <<"/", "a">>
    /\ groups[2].newPrefixSegment = <<"/", "a", "a">>
    /\ last.op = "route" /\ last.beh = <<"a">>
    /\ \E r \in router : r.path = <<"/", "a", "/", "a", "a", "/", "a">>

\* C33: the path a route is registered under has no repeated slash and no
\* trailing slash unless it is the root, normalizing it again leaves it
\* unchanged, and the prefix of a group and the path of a route are the
\* same for every spelling that differs in redundant slashes only.
C33_NormalizationInsensitive ==
    /\ (last.op = "group") =>
          \A pre \in Strings :
              Segs(pre) = Segs(last.beh) =>
                  group(groups[Len(groups)].originalPrefix, pre).currentGroupPrefix
                      = _currentGroupPrefix
    /\ (last.op = "route" /\ ~last.threw) =>
          LET routePath == last.kind
          IN  /\ routePath[1] = "/"
              /\ \A i \in 1..(Len(routePath) - 1) :
                    ~(routePath[i] = "/" /\ routePath[i + 1] = "/")
              /\ routePath = <<"/">> \/ routePath[Len(routePath)] # "/"
              /\ normalizeRoutePath(<<>>, routePath) = routePath
              /\ \A p \in Strings \ {<<>>} :
                    Segs(p) = Segs(last.beh) =>
                        normalizeRoutePath(_currentGroupPrefix, p) = routePath
\* "/a/" with "/a/" registers what "/a" with "a" registers
C33_Witness ==
    /\ Len(groups) = 1
    /\ _currentGroupPrefix = group(<<>>, <<"/", "a", "/">>).currentGroupPrefix
    /\ last.op = "route" /\ last.beh = <<"/", "a", "/">>
    /\ last.kind = <<"/", "a", "/", "a">>
    /\ last.kind = normalizeRoutePath(group(<<>>, <<"/", "a">>).currentGroupPrefix, <<"a">>)

====
